---- MODULE Spec2Model ----
(***************************************************************************)
(* Model of the Network class (transaction propagation and quorum          *)
(* publishing over a peer-to-peer topology) and of its experiment driver   *)
(* run_experiment.                                                         *)
(*                                                                         *)
(* The specifications share the same operations:                           *)
(*   Spec     every public method of Network called in any order, the      *)
(*            configuration and topology methods included, with arguments  *)
(*            drawn from small sets;                                       *)
(*   OpsSpec  the transaction methods called in any order on a network     *)
(*            that was set up once, as main sets it up;                    *)
(*   RunSpec  the tick loop of run_experiment calling them in its order    *)
(*            (FairRunSpec adds the progress of the single thread).        *)
(***************************************************************************)
EXTENDS FiniteSets, Integers, Sequences, TLC

VARIABLES
    \* ---- fields of Network
    connections,                    \* peer -> neighbours, in iteration order, with delay
    connection_count,               \* peer -> number of connections made
    gen,                            \* the arguments and locals of generate_network
    known_rows,                     \* set by set_known_config
    known_cols,
    tx_size_min,                    \* set by set_tx_size_config
    tx_size_max,
    known_size,                     \* peer -> <<rows, cols>> its bitmap was allocated with
    published_size,                 \* <<rows, cols>> of global_published_transactions
    published_capacity,             \* rows of storage global_published_transactions holds
    isValidator,                    \* peer -> BOOLEAN
    validator_ids,                  \* set by select_validators
    M,                              \* quorum size, set by select_validators
    known,                          \* peer -> set of <<row, col>> cells that are true
    global_published_transactions,  \* set of <<row, col>> cells that are true
    global_pending,                 \* sequence of GlobalPendingTx
    pending_tx_ids,                 \* set of ids
    tx_lookup,                      \* id -> Transaction
    next_tx_id,
    proposed_transactions,          \* sequence of Transaction
    publish_attempt_counter,
    total_injected,
    total_published_global,
    current_proposed_block_size_kb,
    total_published_size_kb,
    \* ---- locals of run_experiment (simulated_time and forced_publish_count
    \*      are passed by reference to publish_proposed_transactions)
    simulated_time,
    official_sim_time,
    block_cycle_time,
    forced_publish_count,
    params,                         \* the arguments of run_experiment
    pc,                             \* position in run_experiment, "api" outside it
    aborted,                        \* std::abort() was called
    \* ---- history (not program state)
    origin,                         \* id -> the seed peer it was injected at
    delivered,                      \* <<id, receiver>> -> number of delivery events
    published_ids,                  \* ids published since the last clean_network_txs
    block_attempts,                 \* publish attempts made on the live block
    calls,                          \* Spec: the calls made so far
    last                            \* the last call: its name, arguments and result

cfg_vars == <<known_rows, known_cols, tx_size_min, tx_size_max>>
size_vars == <<known_size, published_size, published_capacity>>
net_vars == <<connections, connection_count, gen, cfg_vars, size_vars,
              isValidator, validator_ids, M, known,
              global_published_transactions, global_pending, pending_tx_ids,
              tx_lookup, next_tx_id, proposed_transactions,
              publish_attempt_counter, total_injected, total_published_global,
              current_proposed_block_size_kb, total_published_size_kb>>
run_vars == <<simulated_time, official_sim_time, block_cycle_time,
              forced_publish_count, params, pc, aborted>>
hist_vars == <<origin, delivered, published_ids, block_attempts, calls, last>>
vars == <<net_vars, run_vars, hist_vars>>

(***************************************************************************)
(* Bounds and configuration                                                *)
(***************************************************************************)
KNOWN_ROWS == 1         \* the configured known_rows x known_cols
KNOWN_COLS == 3
TX_SIZE_MIN == 1        \* main: set_tx_size_config(TX_SIZE_MIN, TX_SIZE_MAX)
TX_SIZE_MAX == 2
MaxTx == 2              \* inject_transactions is called while total_injected stays within it
MaxTimer == 4           \* broadcast is called while no timer would pass it
MaxCalls == 3           \* Spec: the number of calls made
num_peers == 3          \* TopoSpec: generate_network(num_peers, ...)
MaxDraws == 2           \* TopoSpec, Spec: generate_network draws while attempts is below it
max_attempts == 1000    \* generate_network: const int max_attempts

Min(a, b) == IF a < b THEN a ELSE b

\* A bandwidth in kB/ms is the rational num/den (the code holds it in a double;
\* the values used are dyadic, so the double arithmetic on them is exact).
Bw(n, d) == [num |-> n, den |-> d]

(***************************************************************************)
(* Topologies: results of generate_network followed by select_validators   *)
(***************************************************************************)
Connection(n, d) == [peer |-> n, delay_ms |-> d]

\* connections[peer1][peer2] = Connection(delay) and
\* connections[peer2][peer1] = Connection(delay) for a pair that has no entry.
\* connections[p] is an unordered_map; iterating it visits the entries from
\* the newest to the oldest (with the few small keys used here every key has
\* a bucket of its own and a new node is linked in at the head of the list),
\* so the sequence that stands for it gets the new entry at its front.
Linked(conn, peer1, peer2, delay) ==
    [conn EXCEPT ![peer1] = <<Connection(peer2, delay)>> \o @,
                 ![peer2] = <<Connection(peer1, delay)>> \o @]

\* the connections of n peers after the add_connection calls edges[1],
\* edges[2], ..., each <<peer1, peer2, delay>>, all of which succeed
RECURSIVE LinkedAll(_, _, _)
LinkedAll(conn, edges, i) ==
    IF i > Len(edges) THEN conn
    ELSE LinkedAll(Linked(conn, edges[i][1], edges[i][2], edges[i][3]),
                   edges, i + 1)

Built(n, edges) == LinkedAll([p \in 1..n |-> <<>>], edges, 1)

\* 1 - 2 - 3, validator 3, seeds 1 and 2
LineNet ==
    [connections |-> Built(3, <<<<1, 2, 2>>, <<2, 3, 3>>>>),
     validators |-> {3}]

\* full mesh of 3, validators 2 and 3, seed 1
MeshNet ==
    [connections |-> Built(3, <<<<1, 2, 2>>, <<1, 3, 4>>, <<2, 3, 2>>>>),
     validators |-> {2, 3}]

\* seed 1 joined to validators 2..5; 2 and 3 are also joined
StarNet ==
    [connections |-> Built(5, <<<<1, 2, 2>>, <<1, 3, 2>>, <<1, 4, 4>>,
                               <<1, 5, 5>>, <<2, 3, 2>>>>),
     validators |-> {2, 3, 4, 5}]

\* every peer is a validator: there is no seed
NoSeedNet ==
    [connections |-> Built(2, <<<<1, 2, 2>>>>),
     validators |-> {1, 2}]

\* select_validators(0): there is no validator
NoValidatorNet ==
    [connections |-> Built(2, <<<<1, 2, 2>>>>),
     validators |-> {}]

\* validators 3, 4 and 5 have no connection (a peer whose drawn target is 0
\* and that no other peer picks): a quorum of 3 is out of reach
SplitNet ==
    [connections |-> Built(5, <<<<1, 2, 3>>>>),
     validators |-> {2, 3, 4, 5}]

\* full mesh of 4, validator 4, seeds 1, 2 and 3
Mesh4Net ==
    [connections |-> Built(4, <<<<1, 2, 2>>, <<1, 3, 2>>, <<1, 4, 3>>,
                               <<2, 3, 2>>, <<2, 4, 2>>, <<3, 4, 2>>>>),
     validators |-> {4}]

\* the topologies of Spec and OpsSpec, and those of RunSpec
CallNetworks == {LineNet, MeshNet, NoSeedNet, NoValidatorNet, SplitNet}
Networks == CallNetworks \cup {StarNet}

Peers == DOMAIN connections

\* generate_network is not running
NoGen == [num_peers |-> 0, full_mesh |-> FALSE, min_connections |-> 0,
          max_connections |-> 0, delay_min |-> 0, delay_max |-> 0,
          i |-> 0, j |-> 0, target_connections |-> 0, connected_peers |-> {},
          attempts |-> 0]

\* connections[p], iterated: the neighbours of p
Neighbors(p) == {connections[p][i].peer : i \in 1..Len(connections[p])}

\* connections[s][r].delay_ms (operator[] yields a Connection of delay 0
\* for a pair that has no entry)
delay_ms(s, r) ==
    IF r \in Neighbors(s)
    THEN (CHOOSE c \in {connections[s][i] : i \in 1..Len(connections[s])} :
              c.peer = r).delay_ms
    ELSE 0

\* select_validators: f = (total_validators - 1) / 3 with C++ division, which
\* truncates toward zero
\* (variant: f + 1 validators required instead of 2f + 1)
required_validators_weak(total_validators) ==
    LET f == IF total_validators >= 1 THEN (total_validators - 1) \div 3 ELSE 0
    IN  IF f + 1 < 1 THEN 1 ELSE f + 1

required_validators(total_validators) ==
    LET f == IF total_validators >= 1 THEN (total_validators - 1) \div 3 ELSE 0
        r == 2 * f + 1
    IN  IF r < 1 THEN 1 ELSE r

(***************************************************************************)
(* Known-set store                                                         *)
(***************************************************************************)
\* get_known_position: row = id / known_cols, col = id % known_cols, with the
\* configured known_cols of the moment
get_known_position(tx_id) == <<tx_id \div known_cols, tx_id % known_cols>>

\* (variant: the row test is off by one)
known_bounds_ok_loose(peer, pos) ==
    pos[1] <= known_size[peer][1] /\ pos[2] < known_size[peer][2]

\* assert_known_bounds(peer, row, col) passes: row < known.at(peer).size() and
\* col < known.at(peer)[row].size(), the sizes the bitmap of the peer was
\* allocated with
known_bounds_ok(peer, pos) ==
    pos[1] < known_size[peer][1] /\ pos[2] < known_size[peer][2]

\* row < global_published_transactions.size() &&
\* col < global_published_transactions[row].size()
published_bounds_ok(pos) ==
    pos[1] < published_size[1] /\ pos[2] < published_size[2]

\* (variant: the bit is not written)
set_known_none(kn, peer, pos) == kn

\* (variant: the peer's other bits are lost)
set_known_only(kn, peer, pos) == [kn EXCEPT ![peer] = {pos}]

\* known[peer][row][col] = true
set_known(kn, peer, pos) == [kn EXCEPT ![peer] = @ \cup {pos}]

knows(p, tx_id) == get_known_position(tx_id) \in known[p]
is_published(tx_id) == get_known_position(tx_id) \in global_published_transactions

Transaction(id, size_kb) == [id |-> id, size_kb |-> size_kb]
DeliveryAttempt(s, r) == [sender |-> s, receiver |-> r, timer |-> 0]

\* no call yet
NoCall == [op |-> "none", ret |-> 0, outcome |-> "none", ms |-> 0,
           bw |-> Bw(0, 1), log |-> <<>>, meeting |-> 0, attempt |-> 0]

(***************************************************************************)
(* inject_transactions                                                     *)
(***************************************************************************)
\* (variant: one attempt per other peer, connected or not)
SeedAttempts_all(seed) ==
    SelectSeq([i \in 1..Cardinality(Peers) |-> DeliveryAttempt(seed, i)],
              LAMBDA a : a.receiver # seed)

\* one attempt per entry of connections[seed], in iteration order
SeedAttempts(seed) ==
    [i \in 1..Len(connections[seed]) |->
        DeliveryAttempt(seed, connections[seed][i].peer)]

\* The body of the injection loop for the drawn size and seed. st holds the
\* fields the loop writes. The bounds check comes after the id is taken and
\* recorded in tx_lookup and pending_tx_ids, and before the bit is written.
InjectOne(st, tx_size, seed) ==
    LET tx == Transaction(st.next_tx_id, tx_size)
        pos == get_known_position(tx.id)
        s1 == [st EXCEPT !.next_tx_id = @ + 1,
                         !.tx_lookup = @ @@ (tx.id :> tx),
                         !.pending_tx_ids = @ \cup {tx.id}]
    IN  IF ~known_bounds_ok(seed, pos)
        THEN [s1 EXCEPT !.aborted = TRUE]
        ELSE [s1 EXCEPT !.known = set_known(@, seed, pos),
                        !.global_pending =
                            Append(@, [tx |-> tx, attempts |-> SeedAttempts(seed)]),
                        !.origin = @ @@ (tx.id :> seed)]

RECURSIVE InjectLoop(_, _, _)
InjectLoop(st, draws, i) ==
    IF i > Len(draws) \/ st.aborted THEN st
    ELSE InjectLoop(InjectOne(st, draws[i].size, draws[i].seed), draws, i + 1)

\* (variant: every peer may be drawn as the seed)
seed_peers_all == Peers

\* for (p : isValidator) if (!p.second) seed_peers.push_back(p.first)
seed_peers == {p \in Peers : ~isValidator[p]}

inject_transactions(num_transactions) ==
    /\ total_injected' = total_injected + num_transactions
    /\ IF seed_peers = {}
       THEN UNCHANGED <<next_tx_id, tx_lookup, pending_tx_ids, known,
                        global_pending, origin, aborted>>
       ELSE \E draws \in [1..num_transactions ->
                            [size : tx_size_min..tx_size_max, seed : seed_peers]] :
              LET st == InjectLoop(
                            [next_tx_id |-> next_tx_id, tx_lookup |-> tx_lookup,
                             pending_tx_ids |-> pending_tx_ids, known |-> known,
                             global_pending |-> global_pending, origin |-> origin,
                             aborted |-> FALSE], draws, 1)
              IN  /\ next_tx_id' = st.next_tx_id
                  /\ tx_lookup' = st.tx_lookup
                  /\ pending_tx_ids' = st.pending_tx_ids
                  /\ known' = st.known
                  /\ global_pending' = st.global_pending
                  /\ origin' = st.origin
                  /\ aborted' = st.aborted
    /\ last' = [NoCall EXCEPT !.op = "inject", !.ret = num_transactions]
    /\ UNCHANGED <<connections, connection_count, gen, cfg_vars, size_vars,
                   isValidator, validator_ids, M,
                   global_published_transactions, proposed_transactions,
                   publish_attempt_counter, total_published_global,
                   current_proposed_block_size_kb, total_published_size_kb,
                   delivered, published_ids, block_attempts>>

(***************************************************************************)
(* broadcast                                                               *)
(***************************************************************************)
\* (variant: the budget is tested before the transaction is added)
OverBudget_before(transmitted, size_kb, ms, bw) ==
    transmitted * bw.den > bw.num * ms

\* transmitted[sender] + gpt.tx.size_kb > bandwidth_kb_per_ms * ms
OverBudget(transmitted, size_kb, ms, bw) ==
    (transmitted + size_kb) * bw.den > bw.num * ms

\* (variant: the known bit is not consulted)
ReceiverKnows_never(kn, receiver, tx_id) == FALSE

\* the early skip: known[attempt.receiver][row][col]
ReceiverKnows(kn, receiver, tx_id) == get_known_position(tx_id) \in kn[receiver]

\* (variant: the timer is left as it is)
AdvanceTimer_none(attempt, ms) == attempt

\* attempt.timer += ms
AdvanceTimer(attempt, ms) == [attempt EXCEPT !.timer = @ + ms]

\* (variant: an attempt that finds the budget used up is dropped)
DeferAttempt_drop(newAttempts, attempt) == newAttempts

\* over budget: newAttempts.push_back(attempt); continue
DeferAttempt(newAttempts, attempt) == Append(newAttempts, attempt)

\* (variant: the timer must pass the delay)
TimerDue_strict(attempt) ==
    attempt.timer > delay_ms(attempt.sender, attempt.receiver)

\* attempt.timer >= connections[sender][receiver].delay_ms
TimerDue(attempt) == attempt.timer >= delay_ms(attempt.sender, attempt.receiver)

\* (variant: only the sender is skipped)
SkipNeighbor_sender(kn, neighbor, sender, tx_id) == neighbor = sender

\* neighbor == attempt.sender, or known[neighbor][r][c]
SkipNeighbor(kn, neighbor, sender, tx_id) ==
    neighbor = sender \/ ReceiverKnows(kn, neighbor, tx_id)

\* assert_known_bounds(neighbor, r, c) fails for a neighbor of the receiver
\* other than the sender
FreshAborts(receiver, sender, tx_id) ==
    \E i \in DOMAIN connections[receiver] :
        /\ connections[receiver][i].peer # sender
        /\ ~known_bounds_ok(connections[receiver][i].peer,
                            get_known_position(tx_id))

\* the attempts a delivery creates: one per entry of connections[receiver], in
\* iteration order, except the sender and the peers that know the transaction
RECURSIVE FreshAttempts(_, _, _, _, _)
FreshAttempts(kn, receiver, sender, tx_id, i) ==
    IF i > Len(connections[receiver]) THEN <<>>
    ELSE LET neighbor == connections[receiver][i].peer
             rest == FreshAttempts(kn, receiver, sender, tx_id, i + 1)
         IN  IF SkipNeighbor(kn, neighbor, sender, tx_id)
             THEN rest
             ELSE <<DeliveryAttempt(receiver, neighbor)>> \o rest

\* (variant: a deferral uses up what is left of the sender's budget)
DeferTransmitted_block(transmitted, sender, ms, bw) ==
    [transmitted EXCEPT ![sender] = bw.num * ms]

\* a deferral does not touch transmitted[attempt.sender]
DeferTransmitted(transmitted, sender, ms, bw) == transmitted

\* (variant: the created attempts join the list that is being iterated)
IteratedAttempts_grow(attempts, fresh) == attempts \o fresh

\* for (auto &attempt : gpt.attempts): the created attempts go to newAttempts
\* and the loop goes on over gpt.attempts as it was
IteratedAttempts(attempts, fresh) == attempts

\* gpt.attempts as it is stored when the loop over it has reached entry i:
\* attempt.timer += ms acts on the stored attempt, so the timers of the
\* entries 1 .. i are advanced and the later ones are not
StoredAttempts(attempts, i, ms) ==
    [j \in DOMAIN attempts |->
        IF j <= i THEN AdvanceTimer(attempts[j], ms) ELSE attempts[j]]

\* One pass of the inner loop over gpt.attempts. st holds known, transmitted,
\* newAttempts, the log of deliveries made in this call, whether a bounds
\* check has aborted the process and, if so, at which entry of gpt.attempts.
RECURSIVE BroadcastAttempts(_, _, _, _, _, _)
BroadcastAttempts(tx, attempts, i, ms, bw, st) ==
    IF i > Len(attempts) \/ st.aborted THEN st
    ELSE
      LET attempt == AdvanceTimer(attempts[i], ms)
          next(s) == BroadcastAttempts(tx, attempts, i + 1, ms, bw, s)
      IN  IF ~known_bounds_ok(attempt.receiver, get_known_position(tx.id))
          THEN [st EXCEPT !.aborted = TRUE, !.died_at = i]
          ELSE IF ReceiverKnows(st.known, attempt.receiver, tx.id)
          THEN next(st)
          ELSE IF TimerDue(attempt)
          THEN IF OverBudget(st.transmitted[attempt.sender], tx.size_kb, ms, bw)
               THEN next([st EXCEPT
                              !.newAttempts = DeferAttempt(@, attempt),
                              !.transmitted =
                                  DeferTransmitted(@, attempt.sender, ms, bw)])
               ELSE LET kn == set_known(st.known, attempt.receiver,
                                        get_known_position(tx.id))
                        fresh == FreshAttempts(kn, attempt.receiver,
                                               attempt.sender, tx.id, 1)
                    IN  BroadcastAttempts(tx, IteratedAttempts(attempts, fresh),
                             i + 1, ms, bw,
                             [known |-> kn,
                              transmitted |->
                                  [st.transmitted EXCEPT ![attempt.sender] =
                                       @ + tx.size_kb],
                              newAttempts |-> st.newAttempts \o fresh,
                              log |-> Append(st.log,
                                  [id |-> tx.id, sender |-> attempt.sender,
                                   receiver |-> attempt.receiver,
                                   size_kb |-> tx.size_kb]),
                              aborted |-> FreshAborts(attempt.receiver,
                                              attempt.sender, tx.id),
                              died_at |-> i])
          ELSE next([st EXCEPT !.newAttempts = Append(@, attempt)])

\* The outer loop over global_pending. g holds known, transmitted, newGlobal,
\* the log, whether the process was aborted and stored, the entries of
\* global_pending the loop has passed as they are stored: gpt is a reference,
\* so gpt.attempts = newAttempts replaces the attempts of the stored entry,
\* which stays in global_pending also when it has no attempt left; when a
\* bounds check fails in entry k that entry is stored with the timers
\* advanced as far as the inner loop came.
RECURSIVE BroadcastGlobal(_, _, _, _, _)
BroadcastGlobal(gp, k, ms, bw, g) ==
    IF k > Len(gp) \/ g.aborted THEN g
    ELSE
      LET st == BroadcastAttempts(gp[k].tx, gp[k].attempts, 1, ms, bw,
                    [known |-> g.known, transmitted |-> g.transmitted,
                     newAttempts |-> <<>>, log |-> g.log, aborted |-> FALSE,
                     died_at |-> 0])
          gpt == [gp[k] EXCEPT !.attempts = st.newAttempts]
          dead == [gp[k] EXCEPT
                      !.attempts = StoredAttempts(@, st.died_at, ms)]
      IN  BroadcastGlobal(gp, k + 1, ms, bw,
              [known |-> st.known, transmitted |-> st.transmitted,
               newGlobal |-> IF gpt.attempts # <<>> THEN Append(g.newGlobal, gpt)
                             ELSE g.newGlobal,
               stored |-> Append(g.stored, IF st.aborted THEN dead ELSE gpt),
               log |-> st.log, aborted |-> st.aborted])

\* global_pending when a bounds check has ended the process in entry
\* Len(stored): the entries passed as they are stored, the others untouched;
\* global_pending = newGlobal has not been reached
PendingAtDeath(gp, stored) == stored \o SubSeq(gp, Len(stored) + 1, Len(gp))

\* delivered[<<id, receiver>>] counts the delivery events of the log
RECURSIVE CountDeliveries(_, _, _)
CountDeliveries(d, log, i) ==
    IF i > Len(log) THEN d
    ELSE LET key == <<log[i].id, log[i].receiver>>
         IN  CountDeliveries(
                 IF key \in DOMAIN d THEN [d EXCEPT ![key] = @ + 1]
                 ELSE d @@ (key :> 1), log, i + 1)

\* A bounds check of this method fails only when the shape of a bitmap or
\* known_cols was changed after the id was injected. The process is then gone
\* in the middle of the loops: known holds the bits written so far and
\* global_pending the changes made in place so far.
broadcast(ms, bandwidth_kb_per_ms) ==
    LET g == BroadcastGlobal(global_pending, 1, ms, bandwidth_kb_per_ms,
                 [known |-> known, transmitted |-> [p \in Peers |-> 0],
                  newGlobal |-> <<>>, stored |-> <<>>, log |-> <<>>,
                  aborted |-> FALSE])
    IN  /\ known' = g.known
        /\ global_pending' = IF g.aborted
                              THEN PendingAtDeath(global_pending, g.stored)
                              ELSE g.newGlobal
        /\ delivered' = CountDeliveries(delivered, g.log, 1)
        /\ aborted' = (aborted \/ g.aborted)
        /\ last' = [NoCall EXCEPT !.op = "broadcast", !.ms = ms,
                                  !.bw = bandwidth_kb_per_ms, !.log = g.log,
                                  !.outcome = IF g.aborted THEN "aborted"
                                              ELSE "none"]
        /\ UNCHANGED <<connections, connection_count, gen, cfg_vars, size_vars,
                       isValidator, validator_ids, M,
                       global_published_transactions, pending_tx_ids, tx_lookup,
                       next_tx_id, proposed_transactions, publish_attempt_counter,
                       total_injected, total_published_global,
                       current_proposed_block_size_kb, total_published_size_kb,
                       origin, published_ids, block_attempts>>

(***************************************************************************)
(* prepare_request                                                         *)
(***************************************************************************)
\* the results std::shuffle can give for the candidates: every order of them
Shuffles(S) ==
    {f \in [1..Cardinality(S) -> S] : \A i, j \in DOMAIN f : f[i] = f[j] => i = j}

\* (variant: what the chosen validator knows is not consulted)
Candidates_all(chosen_validator) ==
    {tx_id \in pending_tx_ids :
        /\ published_bounds_ok(get_known_position(tx_id))
        /\ get_known_position(tx_id) \notin global_published_transactions}

\* the ids of pending_tx_ids the chosen validator knows and that are not
\* marked in global_published_transactions, for the cells the latter has
Candidates(chosen_validator) ==
    {tx_id \in pending_tx_ids :
        /\ get_known_position(tx_id) \in known[chosen_validator]
        /\ published_bounds_ok(get_known_position(tx_id))
        /\ get_known_position(tx_id) \notin global_published_transactions}

\* The ids for which global_published_transactions[row][col] is read outside
\* the vector: the chosen validator knows the id (the && reads the published
\* cell only then) and the cell is beyond the rows or columns allocated.
\* That read is not checked and is undefined.
StrayReads(chosen_validator) ==
    {tx_id \in pending_tx_ids :
        /\ get_known_position(tx_id) \in known[chosen_validator]
        /\ ~published_bounds_ok(get_known_position(tx_id))}

\* The storage of the outer vector after assign(rows, ...): a vector that
\* must grow gets storage for exactly the rows assigned, one that shrinks,
\* to no row even, keeps the storage it has.
AssignCapacity(capacity, rows) == IF rows > capacity THEN rows ELSE capacity

\* What a read outside global_published_transactions can yield. While the
\* vector has no storage (no clean_network_txs with a row has run) the read
\* goes through a null pointer and the process dies. Once it has storage the
\* read falls into a row that was destroyed or into the memory next to the
\* rows: the process may die, or the read yields any bit.
StrayBits(chosen_validator) ==
    IF published_capacity = 0 /\ StrayReads(chosen_validator) # {} THEN {}
    ELSE SUBSET StrayReads(chosen_validator)

\* assert_known_bounds(chosen_validator, row, col) fails for a pending id
PrepareAborts(chosen_validator) ==
    \E tx_id \in pending_tx_ids :
        ~known_bounds_ok(chosen_validator, get_known_position(tx_id))

\* (variant: the size cap is tested on the block before the transaction is added)
BlockFull_before(count, current_block_size, size_kb, max_tx, max_kb) ==
    count >= max_tx \/ current_block_size > max_kb

\* selected.size() >= maximum_transaction (not negative here, so the cast to
\* size_t keeps its value), or
\* current_block_size + tx.size_kb > maximum_block_size
BlockFull(count, current_block_size, size_kb, max_tx, max_kb) ==
    count >= max_tx \/ current_block_size + size_kb > max_kb

\* The selection loop: both tests leave the loop (break).
RECURSIVE SelectBlock(_, _, _, _, _, _)
SelectBlock(candidate, i, selected, current_block_size, max_tx, max_kb) ==
    IF i > Len(candidate) THEN <<selected, current_block_size>>
    ELSE IF BlockFull(Len(selected), current_block_size, candidate[i].size_kb,
                      max_tx, max_kb)
    THEN <<selected, current_block_size>>
    ELSE SelectBlock(candidate, i + 1, Append(selected, candidate[i]),
                     current_block_size + candidate[i].size_kb, max_tx, max_kb)

\* (variant: every peer may be chosen as the proposer)
local_validator_ids_all == Peers

\* the peers flagged in isValidator
local_validator_ids == {p \in Peers : isValidator[p]}

\* the process ends inside prepare_request: nothing is assigned
PrepareDies(chosen_validator) ==
    /\ aborted' = TRUE
    /\ UNCHANGED <<proposed_transactions, current_proposed_block_size_kb,
                   block_attempts>>
    /\ last' = [NoCall EXCEPT !.op = "prepare", !.outcome = "aborted",
                              !.ret = chosen_validator]

prepare_request(maximum_transaction, maximum_block_size) ==
    /\ IF local_validator_ids = {}
       THEN /\ UNCHANGED <<proposed_transactions,
                           current_proposed_block_size_kb, block_attempts,
                           aborted>>
            /\ last' = [NoCall EXCEPT !.op = "prepare",
                                      !.outcome = "no_validator"]
       ELSE \E chosen_validator \in local_validator_ids :
            IF PrepareAborts(chosen_validator)
            THEN PrepareDies(chosen_validator)
            ELSE \/ /\ StrayReads(chosen_validator) # {}
                    /\ PrepareDies(chosen_validator)
                 \/ \E unset \in StrayBits(chosen_validator) :
                    \E order \in Shuffles(Candidates(chosen_validator) \cup unset) :
                      LET candidate == [i \in DOMAIN order |-> tx_lookup[order[i]]]
                          sel == SelectBlock(candidate, 1, <<>>, 0,
                                     maximum_transaction, maximum_block_size)
                      IN  /\ proposed_transactions' = sel[1]
                          /\ current_proposed_block_size_kb' = sel[2]
                          /\ block_attempts' = 0
                          /\ UNCHANGED aborted
                          /\ last' = [NoCall EXCEPT !.op = "prepare",
                                                    !.outcome = "prepared",
                                                    !.ret = chosen_validator]
    /\ UNCHANGED <<connections, connection_count, gen, cfg_vars, size_vars,
                   isValidator, validator_ids, M, known,
                   global_published_transactions, global_pending,
                   pending_tx_ids, tx_lookup, next_tx_id,
                   publish_attempt_counter, total_injected,
                   total_published_global, total_published_size_kb,
                   origin, delivered, published_ids>>

(***************************************************************************)
(* publish_proposed_transactions                                           *)
(***************************************************************************)
proposed_ids == {proposed_transactions[i].id : i \in DOMAIN proposed_transactions}

\* count: the block transactions validator v knows
KnownCount(v) ==
    Cardinality({i \in DOMAIN proposed_transactions :
                    get_known_position(proposed_transactions[i].id) \in known[v]})

\* (variant: the coverage must pass the threshold)
MeetsThreshold_strict(count, size, threshold) ==
    IF size = 0 THEN 0 > threshold ELSE count * 100 > threshold * size

\* percentage >= threshold, with percentage = count * 100.0 / size, and 0.0
\* for an empty block; for an integer threshold the double comparison agrees
\* with the exact one
MeetsThreshold(count, size, threshold) ==
    IF size = 0 THEN 0 >= threshold ELSE count * 100 >= threshold * size

count_validators_meeting(threshold) ==
    Cardinality({v \in validator_ids :
        MeetsThreshold(KnownCount(v), Len(proposed_transactions), threshold)})

\* if (count_validators_meeting < M): the quorum is not met
QuorumMissed(meeting, quorum) == meeting < quorum

\* the forced branch marks every block id whose cell is inside
\* global_published_transactions
MarkPublished(cells, block) ==
    cells \cup {get_known_position(block[i].id) : i \in
                   {j \in DOMAIN block :
                       published_bounds_ok(get_known_position(block[j].id))}}

\* assert_known_bounds(v, row, col) fails for a block transaction, in
\* print_publish_request_summary for a peer flagged in isValidator or in the
\* counting loop for a validator of validator_ids
PublishAborts ==
    \E v \in local_validator_ids \cup validator_ids :
        \E i \in DOMAIN proposed_transactions :
            ~known_bounds_ok(v, get_known_position(proposed_transactions[i].id))

\* (variant: the block transactions are not erased)
EraseTxs_skip(pool, ids) == pool

\* for every block transaction: pending_tx_ids.erase(tx.id) and
\* tx_lookup.erase(tx.id); pool holds the two containers
EraseTxs(pool, ids) ==
    [pending_tx_ids |-> pool.pending_tx_ids \ ids,
     tx_lookup |-> [id \in (DOMAIN pool.tx_lookup) \ ids |-> pool.tx_lookup[id]]]

\* (variant: a failed attempt counts one millisecond)
BumpAttemptCounter_one(counter, simulation_step_ms) == counter + 1

\* (variant: a failed attempt is not counted)
BumpAttemptCounter_keep(counter, simulation_step_ms) == counter

\* publish_attempt_counter += simulation_step_ms
BumpAttemptCounter(counter, simulation_step_ms) == counter + simulation_step_ms

\* (variant: the counter must pass blocktime)
ForcedDue_strict(counter, blocktime) == counter > blocktime

\* if (publish_attempt_counter >= blocktime), after the counter was increased
ForcedDue(counter, blocktime) == counter >= blocktime

\* (variant: the penalty is three blocktimes)
ForcedPenalty_triple(blocktime) == 3 * blocktime

\* (variant: the penalty is one blocktime)
ForcedPenalty_single(blocktime) == blocktime

\* simulated_time += 2 * blocktime
ForcedPenalty(blocktime) == 2 * blocktime

\* (variant: the propagating transactions are kept)
EraseGlobalPending_skip(gp, ids) == gp

\* global_pending.erase(remove_if(... proposed_ids.count(gpt.tx.id) > 0))
EraseGlobalPending(gp, ids) == SelectSeq(gp, LAMBDA gpt : gpt.tx.id \notin ids)

\* (variant: the block size is dropped without being added)
updatePublishedSize_skip ==
    /\ total_published_size_kb' = total_published_size_kb
    /\ current_proposed_block_size_kb' = 0

\* total_published_size_kb += current_proposed_block_size_kb;
\* current_proposed_block_size_kb = 0
updatePublishedSize ==
    /\ total_published_size_kb' =
           total_published_size_kb + current_proposed_block_size_kb
    /\ current_proposed_block_size_kb' = 0

\* what the normal and the forced branch both do: updatePublishedSize, the
\* erasures, clearing the block, the counters; returns published_count
PublishBlock ==
    /\ updatePublishedSize
    /\ LET pool == EraseTxs([pending_tx_ids |-> pending_tx_ids,
                              tx_lookup |-> tx_lookup], proposed_ids)
       IN  /\ pending_tx_ids' = pool.pending_tx_ids
           /\ tx_lookup' = pool.tx_lookup
    /\ global_pending' = EraseGlobalPending(global_pending, proposed_ids)
    /\ proposed_transactions' = <<>>
    /\ publish_attempt_counter' = 0
    /\ total_published_global' =
           total_published_global + Len(proposed_transactions)
    /\ published_ids' = published_ids \cup proposed_ids
    /\ block_attempts' = 0

\* (variant: an empty block is evaluated like any other)
BlockEmpty_never(block) == FALSE

\* if (proposed_transactions.empty()) return 0;
BlockEmpty(block) == block = <<>>

publish_proposed_transactions(threshold, blocktime, simulation_step_ms) ==
    /\ IF BlockEmpty(proposed_transactions)
       THEN /\ last' = [NoCall EXCEPT !.op = "publish", !.outcome = "empty"]
            /\ UNCHANGED <<global_published_transactions, global_pending,
                           pending_tx_ids, tx_lookup, proposed_transactions,
                           publish_attempt_counter, total_published_global,
                           current_proposed_block_size_kb,
                           total_published_size_kb, simulated_time,
                           forced_publish_count, published_ids, block_attempts,
                           aborted>>
       ELSE IF PublishAborts
       THEN /\ aborted' = TRUE
            /\ last' = [NoCall EXCEPT !.op = "publish", !.outcome = "aborted"]
            /\ UNCHANGED <<global_published_transactions, global_pending,
                           pending_tx_ids, tx_lookup, proposed_transactions,
                           publish_attempt_counter, total_published_global,
                           current_proposed_block_size_kb,
                           total_published_size_kb, simulated_time,
                           forced_publish_count, published_ids, block_attempts>>
       ELSE IF QuorumMissed(count_validators_meeting(threshold), M)
       THEN IF ForcedDue(BumpAttemptCounter(publish_attempt_counter,
                                            simulation_step_ms), blocktime)
            THEN /\ forced_publish_count' = forced_publish_count + 1
                 /\ simulated_time' = simulated_time + ForcedPenalty(blocktime)
                 /\ global_published_transactions' =
                        MarkPublished(global_published_transactions,
                                      proposed_transactions)
                 /\ PublishBlock
                 /\ UNCHANGED aborted
                 /\ last' = [NoCall EXCEPT !.op = "publish",
                                 !.outcome = "forced",
                                 !.ret = Len(proposed_transactions),
                                 !.meeting = count_validators_meeting(threshold),
                                 !.attempt = block_attempts + 1]
            ELSE /\ publish_attempt_counter' =
                        BumpAttemptCounter(publish_attempt_counter,
                                           simulation_step_ms)
                 /\ block_attempts' = block_attempts + 1
                 /\ last' = [NoCall EXCEPT !.op = "publish", !.outcome = "retry",
                                 !.meeting = count_validators_meeting(threshold),
                                 !.attempt = block_attempts + 1]
                 /\ UNCHANGED <<global_published_transactions, global_pending,
                                pending_tx_ids, tx_lookup, proposed_transactions,
                                total_published_global,
                                current_proposed_block_size_kb,
                                total_published_size_kb, simulated_time,
                                forced_publish_count, published_ids, aborted>>
       ELSE /\ PublishBlock
            /\ last' = [NoCall EXCEPT !.op = "publish", !.outcome = "normal",
                            !.ret = Len(proposed_transactions),
                            !.meeting = count_validators_meeting(threshold),
                            !.attempt = block_attempts + 1]
            /\ UNCHANGED <<global_published_transactions, simulated_time,
                           forced_publish_count, aborted>>
    /\ UNCHANGED <<connections, connection_count, gen, cfg_vars, size_vars,
                   isValidator, validator_ids, M, known,
                   next_tx_id, total_injected, origin, delivered>>

(***************************************************************************)
(* clean_network_txs                                                       *)
(***************************************************************************)
\* for (auto &p : known) p.second.assign(known_rows, vector<bool>(known_cols, false));
\* global_published_transactions.assign(known_rows, vector<bool>(known_cols, false))
\* gives the latter its rows
cleared_known == [p \in DOMAIN known |-> {}]

clean_network_txs ==
    /\ next_tx_id' = 0
    /\ publish_attempt_counter' = 0
    /\ proposed_transactions' = <<>>
    /\ total_injected' = 0
    /\ total_published_global' = 0
    /\ global_pending' = <<>>
    /\ total_published_size_kb' = 0
    /\ current_proposed_block_size_kb' = 0
    /\ pending_tx_ids' = {}
    /\ tx_lookup' = <<>>
    /\ known' = cleared_known
    /\ known_size' = [p \in DOMAIN known |-> <<known_rows, known_cols>>]
    /\ global_published_transactions' = {}
    /\ published_size' = <<known_rows, known_cols>>
    /\ published_capacity' = AssignCapacity(published_capacity, known_rows)
    /\ origin' = <<>>
    /\ delivered' = <<>>
    /\ published_ids' = {}
    /\ block_attempts' = 0
    /\ last' = [NoCall EXCEPT !.op = "clean"]
    /\ UNCHANGED <<connections, connection_count, gen, cfg_vars, isValidator,
                   validator_ids, M, aborted>>

(***************************************************************************)
(* The state after construction, generate_network and select_validators,   *)
(* as main sets the network up: clean_network_txs has not been called      *)
(***************************************************************************)
\* the configuration, then generate_network and select_validators for
\* topology net: every peer gets a bitmap of known_rows x known_cols bits
Setup(net) ==
    /\ known_rows = KNOWN_ROWS
    /\ known_cols = KNOWN_COLS
    /\ tx_size_min = TX_SIZE_MIN
    /\ tx_size_max = TX_SIZE_MAX
    /\ connections = net.connections
    /\ connection_count = [p \in DOMAIN net.connections |->
                               Len(net.connections[p])]
    /\ gen = NoGen
    /\ isValidator = [p \in DOMAIN net.connections |-> p \in net.validators]
    /\ validator_ids = net.validators
    /\ M = required_validators(Cardinality(net.validators))
    /\ known = [p \in DOMAIN net.connections |-> {}]
    /\ known_size = [p \in DOMAIN net.connections |-> <<KNOWN_ROWS, KNOWN_COLS>>]

\* the member initialisers: global_published_transactions is a vector without
\* rows and without storage, which only clean_network_txs allocates
Constructed ==
    /\ global_published_transactions = {}
    /\ published_size = <<0, 0>>
    /\ published_capacity = 0
    /\ global_pending = <<>>
    /\ pending_tx_ids = {}
    /\ tx_lookup = <<>>
    /\ next_tx_id = 0
    /\ proposed_transactions = <<>>
    /\ publish_attempt_counter = 0
    /\ total_injected = 0
    /\ total_published_global = 0
    /\ current_proposed_block_size_kb = 0
    /\ total_published_size_kb = 0
    /\ aborted = FALSE
    /\ origin = <<>>
    /\ delivered = <<>>
    /\ published_ids = {}
    /\ block_attempts = 0
    /\ calls = 0
    /\ last = NoCall

\* the locals of run_experiment at its start
RunLocals ==
    /\ simulated_time = 0
    /\ official_sim_time = 0
    /\ block_cycle_time = 0
    /\ forced_publish_count = 0

\* argument values
StepValues == {2, 3}
BlocktimeValues == {2, 4}
ThresholdValues == {50, 100}
BandwidthValues == {Bw(1, 4), Bw(1, 2), Bw(2, 1)}
MaxTransactionValues == {1, 2}
MaxBlockSizeValues == {0, 3}
InjectionCounts == {0, 1}
TotalValues == {3, 7}

\* argument values of the calls of OpsSpec and Spec
CallBandwidths == {Bw(1, 2), Bw(2, 1)}
CallBlocktimes == {4}
CallMaxBlockSizes == {3}

NoRun == [total_simulation_ms |-> 0, injection_count |-> 0,
          simulation_step_ms |-> 1, publish_threshold |-> 100,
          blocktime |-> 1, bandwidth_kb_per_ms |-> Bw(1, 1),
          max_transactions |-> 1, max_block_size |-> 1]

(***************************************************************************)
(* OpsSpec: the transaction methods, called in any order on a network that *)
(* was set up once                                                         *)
(***************************************************************************)
Init ==
    /\ \E net \in CallNetworks : Setup(net)
    /\ Constructed
    /\ RunLocals
    /\ params = NoRun
    /\ pc = "api"

Idle == ~aborted /\ pc = "api"
     /\ UNCHANGED <<official_sim_time, block_cycle_time, params, pc>>

CallInject ==
    \E n \in 0..MaxTx :
        /\ total_injected + n <= MaxTx
        /\ Idle
        /\ inject_transactions(n)
        /\ UNCHANGED <<simulated_time, forced_publish_count>>

CallBroadcast ==
    \E ms \in StepValues, bw \in CallBandwidths :
        /\ \A k \in DOMAIN global_pending :
             \A i \in DOMAIN global_pending[k].attempts :
                global_pending[k].attempts[i].timer + ms <= MaxTimer
        /\ Idle
        /\ broadcast(ms, bw)
        /\ UNCHANGED <<simulated_time, forced_publish_count>>

CallPrepare ==
    \E mt \in MaxTransactionValues, mb \in CallMaxBlockSizes :
        /\ Idle
        /\ prepare_request(mt, mb)
        /\ UNCHANGED <<simulated_time, forced_publish_count>>

CallPublish ==
    \E th \in ThresholdValues, bt \in CallBlocktimes, st \in StepValues :
        /\ Idle
        /\ publish_proposed_transactions(th, bt, st)

\* a new experiment begins as in run_experiment: clean_network_txs() and the
\* caller's clock and forced-publish count start from 0
CallClean ==
    /\ Idle
    /\ clean_network_txs
    /\ simulated_time' = 0
    /\ forced_publish_count' = 0

OpsNext ==
    \/ CallInject /\ UNCHANGED calls
    \/ CallBroadcast /\ UNCHANGED calls
    \/ CallPrepare /\ UNCHANGED calls
    \/ CallPublish /\ UNCHANGED calls
    \/ CallClean /\ UNCHANGED calls

OpsSpec == Init /\ [][OpsNext]_vars

(***************************************************************************)
(* StepSpec: inject_transactions and broadcast, the latter with any step,  *)
(* zero and negative ones included                                         *)
(***************************************************************************)
AnyStepValues == {-1, 0} \cup StepValues

CallBroadcastAny ==
    \E ms \in AnyStepValues, bw \in CallBandwidths :
        /\ \A k \in DOMAIN global_pending :
             \A i \in DOMAIN global_pending[k].attempts :
                /\ global_pending[k].attempts[i].timer + ms <= MaxTimer
                /\ global_pending[k].attempts[i].timer + ms >= -MaxTimer
        /\ Idle
        /\ broadcast(ms, bw)
        /\ UNCHANGED <<simulated_time, forced_publish_count>>

StepNext ==
    \/ CallInject /\ UNCHANGED calls
    \/ CallBroadcastAny /\ UNCHANGED calls

StepSpec == Init /\ [][StepNext]_vars

(***************************************************************************)
(* RunSpec: run_experiment                                                 *)
(***************************************************************************)
RunParams ==
    [total_simulation_ms : TotalValues, injection_count : InjectionCounts,
     simulation_step_ms : StepValues, publish_threshold : ThresholdValues,
     blocktime : BlocktimeValues, bandwidth_kb_per_ms : BandwidthValues,
     max_transactions : MaxTransactionValues,
     max_block_size : MaxBlockSizeValues]

\* before run_experiment is called
RunInit ==
    /\ \E net \in Networks : Setup(net)
    /\ Constructed
    /\ RunLocals
    /\ params = NoRun
    /\ pc = "start"

\* run_experiment is called with its arguments: clean_network_txs() and the
\* initialisation of the locals
RunStart ==
    /\ ~aborted
    /\ pc = "start"
    /\ params' \in RunParams
    /\ clean_network_txs
    /\ simulated_time' = 0
    /\ official_sim_time' = 0
    /\ block_cycle_time' = 0
    /\ forced_publish_count' = 0
    /\ pc' = "outer"

\* while (simulated_time < total_simulation_ms)
OuterCond == simulated_time < params.total_simulation_ms

\* while (block_cycle_time < blocktime + publish_attempt_counter
\*        && simulated_time < total_simulation_ms)
InnerCond ==
    /\ block_cycle_time < params.blocktime + publish_attempt_counter
    /\ simulated_time < params.total_simulation_ms

\* (variant: the step is not clamped)
step_unclamped == params.simulation_step_ms

\* int step = std::min(simulation_step_ms, blocktime + counter - block_cycle_time)
step ==
    Min(params.simulation_step_ms,
        (params.blocktime + publish_attempt_counter) - block_cycle_time)

\* the inner loop is entered (again): inject_transactions(injection_count)
RunInject ==
    /\ ~aborted
    /\ \/ pc = "outer" /\ OuterCond
       \/ pc = "inner"
    /\ InnerCond
    /\ inject_transactions(params.injection_count)
    /\ pc' = "broadcast"
    /\ UNCHANGED <<simulated_time, official_sim_time, block_cycle_time,
                   forced_publish_count, params>>

\* broadcast(step, bandwidth_kb_per_ms) and the three clocks
RunBroadcast ==
    /\ ~aborted
    /\ pc = "broadcast"
    /\ broadcast(step, params.bandwidth_kb_per_ms)
    /\ block_cycle_time' = block_cycle_time + step
    /\ simulated_time' = simulated_time + step
    /\ official_sim_time' = official_sim_time + step
    /\ pc' = "inner"
    /\ UNCHANGED <<forced_publish_count, params>>

\* (variant: a block is prepared in every cycle)
NoLiveBlock_always == TRUE

\* if (proposed_transactions.empty())
NoLiveBlock == proposed_transactions = <<>>

\* the inner loop is left: if (proposed_transactions.empty()) prepare_request(...)
RunPrepare ==
    /\ ~aborted
    /\ \/ pc = "outer" /\ OuterCond
       \/ pc = "inner"
    /\ ~InnerCond
    /\ IF NoLiveBlock
       THEN prepare_request(params.max_transactions, params.max_block_size)
       ELSE UNCHANGED <<net_vars, aborted, hist_vars>>
    /\ pc' = "publish"
    /\ UNCHANGED <<simulated_time, official_sim_time, block_cycle_time,
                   forced_publish_count, params>>

\* published_now = publish_proposed_transactions(...);
\* if (published_now > 0) block_cycle_time = 0;
RunPublish ==
    /\ ~aborted
    /\ pc = "publish"
    /\ publish_proposed_transactions(params.publish_threshold, params.blocktime,
                                     params.simulation_step_ms)
    /\ block_cycle_time' = IF last'.ret > 0 THEN 0 ELSE block_cycle_time
    /\ pc' = "outer"
    /\ UNCHANGED <<official_sim_time, params>>

\* the outer loop is left: the result record is returned
RunReturn ==
    /\ ~aborted
    /\ pc = "outer"
    /\ ~OuterCond
    /\ pc' = "done"
    /\ UNCHANGED <<net_vars, simulated_time, official_sim_time, block_cycle_time,
                   forced_publish_count, params, aborted, hist_vars>>

RunNext ==
    \/ RunStart /\ UNCHANGED calls
    \/ RunInject /\ UNCHANGED calls
    \/ RunBroadcast /\ UNCHANGED calls
    \/ RunPrepare /\ UNCHANGED calls
    \/ RunPublish /\ UNCHANGED calls
    \/ RunReturn

RunSpec == RunInit /\ [][RunNext]_vars

\* run_experiment is one thread that takes its next step until it returns or
\* aborts. Every step of RunNext moves pc, and one is possible exactly when
\* the run has neither returned nor aborted.
Advance ==
    /\ ~aborted
    /\ pc # "done"
    /\ pc' \in {"outer", "inner", "broadcast", "publish", "done"} \ {pc}

FairRunSpec == RunSpec /\ WF_pc(Advance)

(***************************************************************************)
(* ScenarioSpec: one transaction on a full mesh: clean_network_txs, with    *)
(* which an experiment begins, inject_transactions(1), one broadcast,      *)
(* prepare_request, publish_proposed_transactions                          *)
(***************************************************************************)
ScenarioNetworks == {MeshNet, Mesh4Net}

\* the caps of prepare_request in the scenario: also a block of no transaction
ScenarioMaxTransactionValues == MaxTransactionValues \cup {0}

ScenarioParams ==
    {p \in [total_simulation_ms : TotalValues, injection_count : InjectionCounts,
            simulation_step_ms : StepValues, publish_threshold : ThresholdValues,
            blocktime : BlocktimeValues, bandwidth_kb_per_ms : BandwidthValues,
            max_transactions : ScenarioMaxTransactionValues,
            max_block_size : MaxBlockSizeValues] :
        p.total_simulation_ms = 3 /\ p.injection_count = 1}

ScenarioInit ==
    /\ \E net \in ScenarioNetworks : Setup(net)
    /\ Constructed
    /\ RunLocals
    /\ params \in ScenarioParams
    /\ pc = "s_clean"

ScenarioFrame == UNCHANGED <<official_sim_time, block_cycle_time, params, calls>>

ScenarioClean ==
    /\ ~aborted /\ pc = "s_clean"
    /\ clean_network_txs
    /\ pc' = "s_inject"
    /\ ScenarioFrame /\ UNCHANGED <<simulated_time, forced_publish_count>>

ScenarioInject ==
    /\ ~aborted /\ pc = "s_inject"
    /\ inject_transactions(params.injection_count)
    /\ pc' = "s_broadcast"
    /\ ScenarioFrame /\ UNCHANGED <<simulated_time, forced_publish_count>>

ScenarioBroadcast ==
    /\ ~aborted /\ pc = "s_broadcast"
    /\ broadcast(params.simulation_step_ms, params.bandwidth_kb_per_ms)
    /\ pc' = "s_prepare"
    /\ ScenarioFrame /\ UNCHANGED <<simulated_time, forced_publish_count>>

ScenarioPrepare ==
    /\ ~aborted /\ pc = "s_prepare"
    /\ prepare_request(params.max_transactions, params.max_block_size)
    /\ pc' = "s_publish"
    /\ ScenarioFrame /\ UNCHANGED <<simulated_time, forced_publish_count>>

ScenarioPublish ==
    /\ ~aborted /\ pc = "s_publish"
    /\ publish_proposed_transactions(params.publish_threshold, params.blocktime,
                                     params.simulation_step_ms)
    /\ pc' = "s_done"
    /\ ScenarioFrame

ScenarioNext ==
    \/ ScenarioClean
    \/ ScenarioInject \/ ScenarioBroadcast \/ ScenarioPrepare \/ ScenarioPublish

ScenarioSpec == ScenarioInit /\ [][ScenarioNext]_vars

(***************************************************************************)
(* generate_network and add_connection                                     *)
(***************************************************************************)
\* argument values of generate_network; a delay is
\* clamp(draw, delay_min, delay_max) * delay_multiplier, with multiplier 1
DelayMin == 2
DelayMax == 3
DelayValues == DelayMin..DelayMax
MaxConnectionValues == {1, 2}
MinConnectionValues == {0, 1}

\* connections[peer1].find(peer2) != connections[peer1].end()
HasEdge(conn, peer1, peer2) ==
    \E k \in DOMAIN conn[peer1] : conn[peer1][k].peer = peer2

\* (variant: only the cap of peer1 is tested)
AtCap_first(count, peer1, peer2, max_connections) ==
    count[peer1] >= max_connections

\* connection_count[peer1] >= max_connections ||
\* connection_count[peer2] >= max_connections
AtCap(count, peer1, peer2, max_connections) ==
    count[peer1] >= max_connections \/ count[peer2] >= max_connections

\* add_connection for distinct peers; last.ret is 1 for true and 0 for false
add_connection(peer1, peer2, delay, max_connections) ==
    IF HasEdge(connections, peer1, peer2)
    THEN /\ UNCHANGED <<connections, connection_count>>
         /\ last' = [NoCall EXCEPT !.op = "add_connection",
                                   !.outcome = "exists"]
    ELSE IF AtCap(connection_count, peer1, peer2, max_connections)
    THEN /\ UNCHANGED <<connections, connection_count>>
         /\ last' = [NoCall EXCEPT !.op = "add_connection", !.outcome = "cap"]
    ELSE /\ connections' = Linked(connections, peer1, peer2, delay)
         /\ connection_count' =
                [connection_count EXCEPT ![peer1] = @ + 1, ![peer2] = @ + 1]
         /\ last' = [NoCall EXCEPT !.op = "add_connection",
                                   !.outcome = "added", !.ret = 1]

\* what the body of generate_network and add_connection leave alone
TopoFrame ==
    UNCHANGED <<cfg_vars, size_vars, isValidator, validator_ids, M, known,
                global_published_transactions, global_pending, pending_tx_ids,
                tx_lookup, next_tx_id, proposed_transactions,
                publish_attempt_counter, total_injected, total_published_global,
                current_proposed_block_size_kb, total_published_size_kb,
                simulated_time, official_sim_time, block_cycle_time,
                forced_publish_count, params, aborted, origin, delivered,
                published_ids, block_attempts>>

\* a step of generate_network that does not call add_connection
GenNoCall ==
    /\ UNCHANGED <<connections, connection_count>>
    /\ last' = [NoCall EXCEPT !.op = "generate_network"]

\* full mesh: add_connection(i, j, delay, max_connections) for j = i+1 ..
\* num_peers, for i = 1 .. num_peers
GenMesh ==
    /\ pc = "gen_mesh"
    /\ IF gen.i > gen.num_peers
       THEN /\ pc' = "gen_done"
            /\ GenNoCall /\ UNCHANGED gen
       ELSE IF gen.j > gen.num_peers
       THEN /\ gen' = [gen EXCEPT !.i = @ + 1, !.j = gen.i + 2]
            /\ GenNoCall /\ UNCHANGED pc
       ELSE /\ \E delay \in gen.delay_min..gen.delay_max :
                   add_connection(gen.i, gen.j, delay, gen.max_connections)
            /\ gen' = [gen EXCEPT !.j = @ + 1]
            /\ UNCHANGED pc
    /\ TopoFrame

\* random: target_connections = min(draw from min_connections ..
\* max_connections, max_connections); connected_peers and attempts start anew
GenTarget ==
    /\ pc = "gen_target"
    /\ IF gen.i > gen.num_peers
       THEN /\ pc' = "gen_done"
            /\ UNCHANGED gen
       ELSE /\ \E draw \in gen.min_connections..gen.max_connections :
                   gen' = [gen EXCEPT
                              !.target_connections = Min(draw, gen.max_connections),
                              !.connected_peers = {}, !.attempts = 0]
            /\ pc' = "gen_try"
    /\ GenNoCall
    /\ TopoFrame

\* while (connected_peers.size() < target_connections &&
\*        connection_count[i] < max_connections && attempts < max_attempts)
GenTryCond ==
    /\ Cardinality(gen.connected_peers) < gen.target_connections
    /\ connection_count[gen.i] < gen.max_connections
    /\ gen.attempts < max_attempts

\* the candidate may be tried: it is another peer, not yet connected to i
\* and below the cap
GenCandidateOk(candidate) ==
    /\ candidate # gen.i
    /\ candidate \notin gen.connected_peers
    /\ ~HasEdge(connections, gen.i, candidate)
    /\ connection_count[candidate] < gen.max_connections

\* random: one pass of the while loop, or leaving it for the next peer
GenTry ==
    /\ pc = "gen_try"
    /\ IF GenTryCond
       THEN \E candidate \in 1..gen.num_peers :
              /\ IF GenCandidateOk(candidate)
                 THEN /\ \E delay \in gen.delay_min..gen.delay_max :
                            add_connection(gen.i, candidate, delay,
                                           gen.max_connections)
                      /\ gen' = [gen EXCEPT
                                    !.connected_peers =
                                        IF last'.ret = 1
                                        THEN @ \cup {candidate} ELSE @,
                                    !.attempts = @ + 1]
                 ELSE /\ gen' = [gen EXCEPT !.attempts = @ + 1]
                      /\ GenNoCall
              /\ UNCHANGED pc
       ELSE /\ gen' = [gen EXCEPT !.i = @ + 1]
            /\ pc' = "gen_target"
            /\ GenNoCall
    /\ TopoFrame

\* add_connection called on two distinct peers of the network: after
\* generate_network with the cap the network was generated with, at any
\* other time with any cap
CallAddConnection ==
    /\ ~aborted
    /\ pc \in {"gen_done", "api"}
    /\ \E peer1, peer2 \in Peers, delay \in DelayValues :
       \E max_connections \in IF pc = "gen_done" THEN {gen.max_connections}
                              ELSE MaxConnectionValues :
          /\ peer1 # peer2
          /\ add_connection(peer1, peer2, delay, max_connections)
    /\ UNCHANGED <<gen, pc>>
    /\ TopoFrame

(***************************************************************************)
(* TopoSpec: generate_network on a new Network, then add_connection calls  *)
(***************************************************************************)
\* generate_network(num_peers, full_mesh, min_connections, max_connections,
\* ...) on a new Network, after its first loop: every peer has
\* connection_count 0, is no validator and has an all-false bitmap
TopoInit ==
    /\ known_rows = KNOWN_ROWS
    /\ known_cols = KNOWN_COLS
    /\ tx_size_min = TX_SIZE_MIN
    /\ tx_size_max = TX_SIZE_MAX
    /\ connections = [p \in 1..num_peers |-> <<>>]
    /\ connection_count = [p \in 1..num_peers |-> 0]
    /\ isValidator = [p \in 1..num_peers |-> FALSE]
    /\ validator_ids = {}
    /\ M = 0
    /\ known = [p \in 1..num_peers |-> {}]
    /\ known_size = [p \in 1..num_peers |-> <<KNOWN_ROWS, KNOWN_COLS>>]
    /\ Constructed
    /\ RunLocals
    /\ params = NoRun
    /\ \E fm \in BOOLEAN, mx \in MaxConnectionValues,
          mn \in MinConnectionValues :
          /\ mn <= mx
          /\ gen = [NoGen EXCEPT !.num_peers = num_peers, !.full_mesh = fm,
                                 !.min_connections = mn,
                                 !.max_connections = mx,
                                 !.delay_min = DelayMin, !.delay_max = DelayMax,
                                 !.i = 1, !.j = 2]
          /\ pc = IF fm THEN "gen_mesh" ELSE "gen_target"

\* the passes of the while loop that are followed: a pass that draws is
\* followed while attempts is below MaxDraws, the pass that leaves the loop
\* always
DrawsBounded == GenTryCond => gen.attempts < MaxDraws

TopoNext ==
    \/ GenMesh /\ UNCHANGED calls
    \/ GenTarget /\ UNCHANGED calls
    \/ GenTry /\ DrawsBounded /\ UNCHANGED calls
    \/ CallAddConnection /\ UNCHANGED calls

TopoSpec == TopoInit /\ [][TopoNext]_vars

\* the same with every pass of the while loop followed, up to the one that
\* leaves it because attempts has reached max_attempts
TopoFullNext ==
    \/ GenMesh /\ UNCHANGED calls
    \/ GenTarget /\ UNCHANGED calls
    \/ GenTry /\ UNCHANGED calls
    \/ CallAddConnection /\ UNCHANGED calls

TopoFullSpec == TopoInit /\ [][TopoFullNext]_vars

(***************************************************************************)
(* Spec: every public method, called in any order                          *)
(***************************************************************************)
\* argument values of the configuration methods
KnownRowValues == {0, KNOWN_ROWS, KNOWN_ROWS + 1}
KnownColValues == {1, KNOWN_COLS}
TxSizeValues == TX_SIZE_MIN..TX_SIZE_MAX
SelectValues == {0, 1, 2}

\* what the configuration methods, select_validators and the first loop of
\* generate_network leave alone
SetupFrame ==
    UNCHANGED <<global_published_transactions, published_size,
                published_capacity, global_pending,
                pending_tx_ids, tx_lookup, next_tx_id, proposed_transactions,
                publish_attempt_counter, total_injected, total_published_global,
                current_proposed_block_size_kb, total_published_size_kb,
                simulated_time, forced_publish_count, aborted, origin,
                delivered, published_ids, block_attempts>>

\* set_known_config(rows, cols): the two fields only; the bitmaps keep their
\* shape until generate_network or clean_network_txs allocates them anew
set_known_config(rows, cols) ==
    /\ known_rows' = rows
    /\ known_cols' = cols
    /\ last' = [NoCall EXCEPT !.op = "set_known_config"]
    /\ UNCHANGED <<connections, connection_count, gen, tx_size_min,
                   tx_size_max, known_size, isValidator, validator_ids, M,
                   known>>

set_tx_size_config(min_size, max_size) ==
    /\ tx_size_min' = min_size
    /\ tx_size_max' = max_size
    /\ last' = [NoCall EXCEPT !.op = "set_tx_size_config"]
    /\ UNCHANGED <<connections, connection_count, gen, known_rows, known_cols,
                   known_size, isValidator, validator_ids, M, known>>

\* The shuffle of all_peers (the keys of connection_count) puts any
\* num_validators of them first, all of them when there are fewer. Their
\* flags are set, no flag is cleared; validator_ids is rebuilt from the flags
\* and M from its size.
select_validators(num_validators) ==
    \E chosen \in SUBSET (DOMAIN connection_count) :
        /\ Cardinality(chosen) =
               Min(IF num_validators < 0 THEN 0 ELSE num_validators,
                   Cardinality(DOMAIN connection_count))
        /\ isValidator' = [p \in DOMAIN isValidator \cup chosen |->
                               IF p \in chosen THEN TRUE ELSE isValidator[p]]
        /\ validator_ids' = {p \in DOMAIN isValidator' : isValidator'[p]}
        /\ M' = required_validators(Cardinality(validator_ids'))
        /\ last' = [NoCall EXCEPT !.op = "select_validators",
                                  !.ret = num_validators]
        /\ UNCHANGED <<connections, connection_count, gen, cfg_vars,
                       known_size, known>>

\* The first loop of generate_network, for i = 1 .. n: connection_count[i] = 0,
\* isValidator[i] = false and known[i] is a new bitmap of known_rows x
\* known_cols bits. connections, validator_ids and M are not touched.
generate_network(n, full_mesh, min_connections, max_connections, dmin, dmax) ==
    /\ connection_count' =
           [p \in DOMAIN connection_count \cup 1..n |->
               IF p \in 1..n THEN 0 ELSE connection_count[p]]
    /\ isValidator' =
           [p \in DOMAIN isValidator \cup 1..n |->
               IF p \in 1..n THEN FALSE ELSE isValidator[p]]
    /\ known' = [p \in DOMAIN known \cup 1..n |->
                    IF p \in 1..n THEN {} ELSE known[p]]
    /\ known_size' = [p \in DOMAIN known_size \cup 1..n |->
                         IF p \in 1..n THEN <<known_rows, known_cols>>
                         ELSE known_size[p]]
    /\ connections' = [p \in DOMAIN connections \cup 1..n |->
                          IF p \in DOMAIN connections THEN connections[p]
                          ELSE <<>>]
    /\ gen' = [NoGen EXCEPT !.num_peers = n, !.full_mesh = full_mesh,
                            !.min_connections = min_connections,
                            !.max_connections = max_connections,
                            !.delay_min = dmin, !.delay_max = dmax,
                            !.i = 1, !.j = 2]
    /\ pc' = IF full_mesh THEN "gen_mesh" ELSE "gen_target"
    /\ last' = [NoCall EXCEPT !.op = "generate_network"]
    /\ UNCHANGED <<cfg_vars, validator_ids, M>>

\* a call is made while fewer than MaxCalls were made
Counted == calls < MaxCalls /\ calls' = calls + 1

CallSetKnownConfig ==
    \E rows \in KnownRowValues, cols \in KnownColValues :
        /\ Idle /\ Counted
        /\ set_known_config(rows, cols)
        /\ SetupFrame

CallSetTxSizeConfig ==
    \E min_size \in TxSizeValues, max_size \in TxSizeValues :
        /\ min_size <= max_size
        /\ Idle /\ Counted
        /\ set_tx_size_config(min_size, max_size)
        /\ SetupFrame

CallSelectValidators ==
    \E num_validators \in SelectValues :
        /\ Idle /\ Counted
        /\ select_validators(num_validators)
        /\ SetupFrame

\* generate_network is entered: its first loop
CallGenerateNetwork ==
    \E full_mesh \in BOOLEAN, max_connections \in MaxConnectionValues :
        /\ ~aborted /\ pc = "api" /\ Counted
        /\ generate_network(num_peers, full_mesh, max_connections,
                            max_connections, DelayMin, DelayMin)
        /\ UNCHANGED <<official_sim_time, block_cycle_time, params>>
        /\ SetupFrame

\* generate_network returns
GenReturn ==
    /\ pc = "gen_done"
    /\ pc' = "api"
    /\ gen' = NoGen
    /\ GenNoCall
    /\ UNCHANGED calls
    /\ TopoFrame

Next ==
    \/ CallInject /\ Counted
    \/ CallBroadcast /\ Counted
    \/ CallPrepare /\ Counted
    \/ CallPublish /\ Counted
    \/ CallClean /\ Counted
    \/ CallSetKnownConfig
    \/ CallSetTxSizeConfig
    \/ CallSelectValidators
    \/ CallGenerateNetwork
    \/ GenMesh /\ UNCHANGED calls
    \/ GenTarget /\ UNCHANGED calls
    \/ GenTry /\ DrawsBounded /\ UNCHANGED calls
    \/ GenReturn
    \/ CallAddConnection /\ pc = "api" /\ Counted

Spec == Init /\ [][Next]_vars

(***************************************************************************)
(* Properties                                                              *)
(***************************************************************************)
InFlightIds == {global_pending[k].tx.id : k \in DOMAIN global_pending}

\* C1: after every call that returned, total_published_global plus the number
\* of ids in the pending index equals total_injected, i.e. get_pending_count()
\* is the size of the pending index.
C1_PendingCountIsIndexSize ==
    ~aborted =>
        total_published_global + Cardinality(pending_tx_ids) = total_injected

\* C2: run_experiment terminates: it reaches its return (a run that called
\* std::abort() has ended too).
C2_RunTerminates == <>(pc = "done" \/ aborted)

CeilDiv(a, b) == (a + b - 1) \div b

\* C3: a live (non-empty) block has failed fewer than
\* ceil(blocktime / simulation_step_ms) publish attempts, each of which added
\* simulation_step_ms to publish_attempt_counter; so the attempt that
\* publishes it is at most the ceil(blocktime / simulation_step_ms)-th.
C3_BlockPublishedWithinBlocktime ==
    LET most == CeilDiv(params.blocktime, params.simulation_step_ms)
    IN  /\ proposed_transactions # <<>> =>
            /\ block_attempts < most
            /\ publish_attempt_counter =
                   block_attempts * params.simulation_step_ms
        /\ (last.op = "publish" /\ last.outcome \in {"normal", "forced"}) =>
            last.attempt <= most
        /\ (last.op = "publish" /\ last.outcome = "forced") =>
            last.attempt = most

\* a block was forced out at its ceil(blocktime / step)-th attempt, after at
\* least one failed attempt
C3_Witness ==
    /\ last.op = "publish" /\ last.outcome = "forced"
    /\ last.attempt = CeilDiv(params.blocktime, params.simulation_step_ms)
    /\ last.attempt >= 2

\* C4: every (transaction, receiver) pair has at most one delivery event in
\* an experiment, and no transaction is delivered to its origin.
C4_AtMostOnceDelivery ==
    \A key \in DOMAIN delivered :
        /\ delivered[key] <= 1
        /\ key[2] # origin[key[1]]

\* a transaction reached, over a cycle of the topology, every peer but its
\* origin: two attempts raced for one receiver
C4_Witness ==
    \E x \in DOMAIN origin :
        /\ \A p \in Peers \ {origin[x]} : <<x, p>> \in DOMAIN delivered
        /\ \A p \in Peers : Cardinality(Neighbors(p)) >= 2

\* the kilobytes sender s delivered in the logged call
RECURSIVE SentKb(_, _, _)
SentKb(log, s, i) ==
    IF i > Len(log) THEN 0
    ELSE (IF log[i].sender = s THEN log[i].size_kb ELSE 0) + SentKb(log, s, i + 1)

\* C5: in every broadcast call, the sizes of the transactions one sender
\* delivers sum to at most bandwidth_kb_per_ms * ms.
C5_BandwidthBudget ==
    last.op = "broadcast" =>
        \A s \in Peers :
            SentKb(last.log, s, 1) * last.bw.den <= last.bw.num * last.ms

\* a sender delivered in the call and one of its due attempts was deferred
C5_Witness ==
    /\ last.op = "broadcast"
    /\ \E k \in DOMAIN global_pending :
       \E i \in DOMAIN global_pending[k].attempts :
         LET a == global_pending[k].attempts[i]
         IN  /\ a.timer >= delay_ms(a.sender, a.receiver)
             /\ ~knows(a.receiver, global_pending[k].tx.id)
             /\ SentKb(last.log, a.sender, 1) > 0

\* C6: simulated_time = official_sim_time + 2 * blocktime *
\* forced_publish_count at every point of run_experiment; a forced publish
\* adds 2 * blocktime and 1 and leaves official_sim_time, a normal publish
\* changes none of the three, a tick adds one step to both clocks.
C6_DualTime ==
    /\ [](simulated_time =
            official_sim_time + 2 * params.blocktime * forced_publish_count)
    /\ [][/\ (pc = "publish" /\ last'.outcome = "forced") =>
               /\ simulated_time' = simulated_time + 2 * params.blocktime
               /\ forced_publish_count' = forced_publish_count + 1
               /\ official_sim_time' = official_sim_time
          /\ (pc = "publish" /\ last'.outcome = "normal") =>
               UNCHANGED <<simulated_time, forced_publish_count,
                           official_sim_time>>
          /\ pc = "broadcast" =>
               /\ simulated_time' - simulated_time =
                      official_sim_time' - official_sim_time
               /\ simulated_time' > simulated_time
               /\ forced_publish_count' = forced_publish_count]_vars

\* two forced publishes and a normal one never: the clocks differ by 4 blocktimes
C6_Witness ==
    /\ forced_publish_count = 2
    /\ simulated_time = official_sim_time + 4 * params.blocktime
    /\ official_sim_time > 0

\* the validators whose coverage of the block, 100 * known / |block|, is at
\* least the threshold
C7_Meeting ==
    {v \in Peers :
        /\ isValidator[v]
        /\ 100 * Cardinality({i \in DOMAIN proposed_transactions :
                                 knows(v, proposed_transactions[i].id)})
             >= params.publish_threshold * Len(proposed_transactions)}

\* M = max(1, 2 * floor((|V| - 1) / 3) + 1)
C7_Quorum ==
    LET V == {v \in Peers : isValidator[v]}
        m == 2 * ((Cardinality(V) - 1) \div 3) + 1
    IN  IF m > 1 THEN m ELSE 1

\* C7: a publish attempt on a non-empty block publishes normally exactly when
\* at least M validators meet the threshold.
C7_NormalPublishIffQuorum ==
    [][(pc = "publish" /\ proposed_transactions # <<>>) =>
          (last'.outcome = "normal" <=> Cardinality(C7_Meeting) >= C7_Quorum)]_vars

\* a block was published normally with exactly M = 3 of 4 validators meeting
C7_Witness ==
    /\ last.op = "publish" /\ last.outcome = "normal"
    /\ M = 3 /\ last.meeting = 3

\* C8: no published id is in a proposed block, and total_published_global
\* counts every published id once.
C8_NoRepublish ==
    /\ \A i \in DOMAIN proposed_transactions :
          proposed_transactions[i].id \notin published_ids
    /\ total_published_global = Cardinality(published_ids)

\* a block was prepared by a validator that still knows a published id
C8_Witness ==
    /\ last.op = "prepare" /\ last.outcome = "prepared"
    /\ proposed_transactions # <<>>
    /\ \E x \in published_ids : knows(last.ret, x)

\* C9: every published id is marked in the global PublishedBitmap.
C9_PublishedIdsMarked == \A x \in published_ids : is_published(x)

\* C10: the pending index and tx_lookup hold the same ids, every InFlightTx id
\* is among them and occurs once, and no published id is left in any of them.
C10_PoolsAgree ==
    /\ pending_tx_ids = DOMAIN tx_lookup
    /\ InFlightIds \subseteq pending_tx_ids
    /\ Len(global_pending) = Cardinality(InFlightIds)
    /\ Len(global_pending) <= Cardinality(pending_tx_ids)
    /\ published_ids \cap (pending_tx_ids \cup DOMAIN tx_lookup \cup InFlightIds) = {}

\* a publish removed a block while another transaction stays pending and
\* propagating
C10_Witness ==
    /\ last.op = "publish" /\ last.outcome \in {"normal", "forced"}
    /\ published_ids # {}
    /\ pending_tx_ids # {}
    /\ global_pending # <<>>

\* the kilobytes of a block
RECURSIVE BlockKb(_, _)
BlockKb(block, i) ==
    IF i > Len(block) THEN 0 ELSE block[i].size_kb + BlockKb(block, i + 1)

\* C11: after a prepare_request that found a validator, the proposed block
\* has at most max_transactions transactions, their sizes sum to at most
\* max_block_size, and current_proposed_block_size_kb is that sum.
C11_BlockWithinCaps ==
    (last.op = "prepare" /\ last.outcome = "prepared") =>
        /\ Len(proposed_transactions) <= params.max_transactions
        /\ BlockKb(proposed_transactions, 1) <= params.max_block_size
        /\ current_proposed_block_size_kb = BlockKb(proposed_transactions, 1)

\* the size cap cut the block: the proposer had two candidates and room for
\* two transactions, and the block holds one
C11_Witness ==
    /\ last.op = "prepare" /\ last.outcome = "prepared"
    /\ Len(proposed_transactions) = 1
    /\ params.max_transactions = 2
    /\ Cardinality(Candidates(last.ret)) = 2

\* C12: a known bit stays set through every inject_transactions, broadcast,
\* prepare_request and publish_proposed_transactions call, also after its
\* transaction is published; only clean_network_txs clears bits.
C12_KnownMonotone ==
    [][last'.op # "clean" => \A p \in Peers : known[p] \subseteq known'[p]]_vars

\* a call was made after a publish, and a peer still knows the published id
C12_Witness ==
    /\ last.op \in {"inject", "broadcast", "prepare"}
    /\ \E x \in published_ids : \E p \in Peers : knows(p, x)

\* C13: every outstanding DeliveryAttempt of every InFlightTx goes from a
\* peer to one of its neighbours (the connections are symmetric, so the two
\* are joined by an edge).
C13_AttemptsFollowEdges ==
    \A k \in DOMAIN global_pending :
        \A i \in DOMAIN global_pending[k].attempts :
            LET a == global_pending[k].attempts[i]
            IN  /\ a.receiver \in Neighbors(a.sender)
                /\ a.sender \in Neighbors(a.receiver)

\* an attempt created by a delivery is outstanding: its sender is not the
\* seed the transaction was injected at
C13_Witness ==
    \E k \in DOMAIN global_pending :
        \E i \in DOMAIN global_pending[k].attempts :
            global_pending[k].attempts[i].sender # origin[global_pending[k].tx.id]

\* max_block_size is smaller than the size of every transaction
C14_NoRoom == pc # "start" /\ params.max_block_size < tx_size_min

\* C14: when max_block_size is smaller than every transaction size, every
\* prepared block is empty and the published totals stay unchanged, and a
\* publish attempt made while a validator knows a pending transaction (the
\* block is empty for want of room) is followed by a forced publish
\* (forced_publish_count increases) unless the run has ended first.
C14_EmptyBlockForced ==
    /\ [](C14_NoRoom =>
            /\ proposed_transactions = <<>>
            /\ total_published_global = 0
            /\ total_published_size_kb = 0)
    /\ (C14_NoRoom /\ pc = "publish"
            /\ \E v \in validator_ids : Candidates(v) # {}) ~>
            (forced_publish_count > 0 \/ pc = "done" \/ aborted)

\* bandwidth_kb_per_ms * simulation_step_ms is smaller than the size of
\* every transaction
C15_Starved ==
    /\ pc # "start"
    /\ params.bandwidth_kb_per_ms.num * params.simulation_step_ms
           < tx_size_min * params.bandwidth_kb_per_ms.den

\* C15: when the budget of a call is smaller than every transaction size, no
\* delivery takes place; a publish attempt made with a transaction pending
\* (there are validators, and a block has room for any transaction) is
\* followed by a forced publish unless the run has ended first; and a forced
\* publish comes when publish_attempt_counter reaches blocktime, adds
\* 2 * blocktime to simulated_time and leaves official_sim_time.
C15_StarvedForcedPublish ==
    /\ [](C15_Starved => delivered = <<>>)
    /\ (C15_Starved /\ pc = "publish" /\ pending_tx_ids # {}
            /\ validator_ids # {}
            /\ params.max_block_size >= tx_size_max) ~>
            (forced_publish_count > 0 \/ pc = "done" \/ aborted)
    /\ [][(C15_Starved /\ pc = "publish" /\ last'.outcome = "forced") =>
             /\ publish_attempt_counter + params.simulation_step_ms
                    >= params.blocktime
             /\ simulated_time' = simulated_time + 2 * params.blocktime
             /\ official_sim_time' = official_sim_time]_vars

\* C16: inject_transactions on a network without a seed peer changes no
\* state: total_injected, next_tx_id, the pending index, tx_lookup,
\* global_pending and the known bitmaps are as before the call.
C16_NoSeedNoMutation ==
    [][(seed_peers = {} /\ last'.op = "inject") =>
          UNCHANGED <<total_injected, next_tx_id, pending_tx_ids, tx_lookup,
                      global_pending, known>>]_vars

\* C17: prepare_request on a network without a validator changes no state:
\* the proposed block, current_proposed_block_size_kb, the pending index and
\* every counter are as before the call.
C17_NoValidatorNoMutation ==
    [][((\A p \in Peers : ~isValidator[p]) /\ last'.op = "prepare") =>
          UNCHANGED <<net_vars, simulated_time, forced_publish_count>>]_vars

\* prepare_request returned early while a pending transaction was known to
\* a peer
C17_Witness ==
    /\ last.op = "prepare" /\ last.outcome = "no_validator"
    /\ \E x \in pending_tx_ids : \E p \in Peers : knows(p, x)

\* C18: publish_proposed_transactions on an empty proposed block returns 0
\* and changes no state: publish_attempt_counter, simulated_time,
\* forced_publish_count, the pending index, tx_lookup, global_pending, the
\* bitmaps and the published totals are as before the call.
C18_EmptyPublishNoOp ==
    [][(proposed_transactions = <<>> /\ last'.op = "publish") =>
          /\ last'.ret = 0
          /\ UNCHANGED <<net_vars, simulated_time, forced_publish_count>>]_vars

\* the call returned on an empty block while publish_attempt_counter was
\* running and a transaction was pending
C18_Witness ==
    /\ last.op = "publish" /\ last.outcome = "empty"
    /\ publish_attempt_counter > 0
    /\ pending_tx_ids # {}

\* the cells of a bitmap of known_rows x known_cols bits
C19_InRange(cells) ==
    \A cell \in cells :
        /\ 0 <= cell[1] /\ cell[1] < known_rows
        /\ 0 <= cell[2] /\ cell[2] < known_cols

\* C19: the run has aborted exactly when an id whose row id / known_cols is
\* not below known_rows was taken (next_tx_id passed known_rows * known_cols);
\* no bitmap holds a bit outside its shape, and nothing is executed after
\* the abort.
C19_OutOfRangeAborts ==
    /\ [](/\ aborted <=> next_tx_id > known_rows * known_cols
          /\ \A p \in Peers : C19_InRange(known[p])
          /\ C19_InRange(global_published_transactions))
    /\ [][~aborted]_vars

\* the injection of the id known_rows * known_cols aborted the run
C19_Witness ==
    /\ aborted
    /\ last.op = "inject"
    /\ next_tx_id = known_rows * known_cols + 1
    /\ \A p \in Peers : get_known_position(next_tx_id - 1) \notin known[p]

\* C20: a broadcast call with ms <= 0 aborts the run.
C20_BadStepAborts ==
    [][(last'.op = "broadcast" /\ last'.ms <= 0) => aborted']_vars

\* the transaction fields clean_network_txs assigns, with the values they
\* have on an engine on which no operation has run
C21_FieldsReset ==
    /\ next_tx_id = 0
    /\ total_injected = 0
    /\ total_published_global = 0
    /\ total_published_size_kb = 0
    /\ publish_attempt_counter = 0
    /\ proposed_transactions = <<>>
    /\ current_proposed_block_size_kb = 0
    /\ pending_tx_ids = {}
    /\ tx_lookup = <<>>
    /\ global_pending = <<>>
    /\ \A p \in Peers : known[p] = {}
    /\ global_published_transactions = {}

\* the transaction state of a newly constructed engine with this topology and
\* these validators: the state the specification starts from, in which
\* global_published_transactions has no row
C21_Fresh ==
    /\ C21_FieldsReset
    /\ \A p \in Peers : known_size[p] = <<known_rows, known_cols>>
    /\ published_size = <<0, 0>>

\* C21: after clean_network_txs, whatever ran before, the transaction state
\* is that of a newly constructed engine with the same topology and
\* validators, the published bitmap included, so that what follows is what
\* follows there.
C21_CleanResets == last.op = "clean" => C21_Fresh

\* what does hold of C21: clean_network_txs gives every field it assigns the
\* value of a new engine
C21_CleanResetsFields == last.op = "clean" => C21_FieldsReset

\* C22: with exactly one validator M = 1, and every publish attempt on a
\* non-empty block is the block's first and publishes it normally, whatever
\* the threshold (at most 100): forced_publish_count and
\* publish_attempt_counter stay 0 for the whole run.
C22_SingleValidatorSuffices ==
    Cardinality({p \in Peers : isValidator[p]}) = 1 =>
        /\ M = 1
        /\ forced_publish_count = 0
        /\ publish_attempt_counter = 0
        /\ (last.op = "publish" /\ last.outcome # "empty") =>
               (last.outcome = "normal" /\ last.attempt = 1)

\* the only validator published a block at threshold 100 that another peer
\* does not know
C22_Witness ==
    /\ Cardinality({p \in Peers : isValidator[p]}) = 1
    /\ last.op = "publish" /\ last.outcome = "normal"
    /\ params.publish_threshold = 100
    /\ \E x \in published_ids : \E p \in Peers : ~knows(p, x)

\* the size of the one transaction of the scenario (its tx_lookup entry is
\* erased when it is published)
C23_TxKb ==
    IF 0 \in DOMAIN tx_lookup THEN tx_lookup[0].size_kb
    ELSE total_published_size_kb

\* full mesh, every delay at most the step, and the budget of the call
\* covers one copy of the transaction per neighbour
C23_Scenario ==
    /\ \A p, q \in Peers :
          p # q => /\ q \in Neighbors(p)
                   /\ delay_ms(p, q) <= params.simulation_step_ms
    /\ (Cardinality(Peers) - 1) * C23_TxKb * params.bandwidth_kb_per_ms.den
           <= params.bandwidth_kb_per_ms.num * params.simulation_step_ms

\* what the scenario comes to when it has run to its end: the transaction is
\* published normally
C23_Published ==
    /\ last.outcome = "normal" /\ last.ret = 1
    /\ total_published_global = 1
    /\ forced_publish_count = 0

C24_BlockFromCandidates ==
    (last.op = "prepare" /\ last.outcome = "prepared") =>
        /\ isValidator[last.ret]
        /\ \A i \in DOMAIN proposed_transactions :
              LET tx == proposed_transactions[i]
              IN  /\ tx.id \in pending_tx_ids
                  /\ tx_lookup[tx.id] = tx
                  /\ knows(last.ret, tx.id)
                  /\ ~is_published(tx.id)
        /\ \A i, j \in DOMAIN proposed_transactions :
              proposed_transactions[i].id = proposed_transactions[j].id => i = j

\* a block was built while a pending transaction was unknown to the proposer
C24_Witness ==
    /\ last.op = "prepare" /\ last.outcome = "prepared"
    /\ proposed_transactions # <<>>
    /\ \E x \in pending_tx_ids : ~knows(last.ret, x)

\* C25: an attempt that a broadcast(ms) call that returns retains (the same
\* transaction, sender and receiver before and after the call), whether not
\* yet due or
\* deferred for want of budget, has its timer increased by ms, which is
\* positive.
C25_MonotoneTimers ==
    [][(last'.op = "broadcast" /\ last'.outcome # "aborted") =>
         \A k \in DOMAIN global_pending, k2 \in DOMAIN global_pending' :
           global_pending[k].tx.id = global_pending'[k2].tx.id =>
             \A i \in DOMAIN global_pending[k].attempts,
                j \in DOMAIN global_pending'[k2].attempts :
               LET a == global_pending[k].attempts[i]
                   b == global_pending'[k2].attempts[j]
               IN  (a.sender = b.sender /\ a.receiver = b.receiver) =>
                      (b.timer = a.timer + last'.ms /\ b.timer > a.timer)]_vars

\* after a broadcast one transaction has an attempt that is due and was
\* deferred and an attempt that is not yet due
C25_Witness ==
    /\ last.op = "broadcast"
    /\ \E k \in DOMAIN global_pending :
         \E i, j \in DOMAIN global_pending[k].attempts :
           LET a == global_pending[k].attempts[i]
               b == global_pending[k].attempts[j]
           IN  /\ a.timer >= delay_ms(a.sender, a.receiver)
               /\ ~knows(a.receiver, global_pending[k].tx.id)
               /\ b.timer > 0
               /\ b.timer < delay_ms(b.sender, b.receiver)

\* the attempts of global_pending as (transaction, sender, receiver) triples
AttemptKeys(gp) ==
    UNION {{<<gp[k].tx.id, gp[k].attempts[i].sender,
              gp[k].attempts[i].receiver>> : i \in DOMAIN gp[k].attempts} :
           k \in DOMAIN gp}

\* C26: an outstanding attempt is not dropped. Across broadcast it is still
\* outstanding with the same sender and receiver unless it was delivered in
\* this call or its receiver knows the transaction; so an attempt that is due
\* and finds its sender's budget used up stays. Across publish it stays unless
\* its transaction was published; inject and prepare_request remove nothing.
\* (clean_network_txs resets the whole engine and is not an operation on
\* attempts.)
C26_DeferredNotDropped ==
    [][\A key \in AttemptKeys(global_pending) :
         LET x == key[1]
             s == key[2]
             r == key[3]
             stays == key \in AttemptKeys(global_pending')
             sent == \E n \in DOMAIN last'.log :
                        /\ last'.log[n].id = x
                        /\ last'.log[n].sender = s
                        /\ last'.log[n].receiver = r
         IN  /\ last'.op = "broadcast" =>
                   /\ stays \/ sent \/ get_known_position(x) \in known[r]
                                    \/ \E n \in DOMAIN last'.log :
                                          /\ last'.log[n].id = x
                                          /\ last'.log[n].receiver = r
                   /\ get_known_position(x) \notin known'[r] => stays
             /\ last'.op = "publish" => (stays \/ x \notin pending_tx_ids')
             /\ last'.op \in {"inject", "prepare"} => stays]_vars

\* after a broadcast that delivered something, an attempt that was already
\* outstanding before the call is due, its receiver does not know the
\* transaction, and it is still outstanding
C26_Witness ==
    /\ last.op = "broadcast"
    /\ last.log # <<>>
    /\ \E k \in DOMAIN global_pending :
         \E i \in DOMAIN global_pending[k].attempts :
           LET a == global_pending[k].attempts[i]
           IN  /\ a.timer > last.ms
               /\ a.timer >= delay_ms(a.sender, a.receiver)
               /\ ~knows(a.receiver, global_pending[k].tx.id)
               /\ \E n \in DOMAIN last.log : last.log[n].sender = a.sender

\* C27: after a broadcast(ms) that returns, ms > 0, the attempts with timer 0 are the ones
\* created in the call. Each of them belongs to a delivery of its transaction
\* x from a sender s to its own sender r, goes to a neighbor n of r other
\* than s, and n did not know x when the delivery was made: n did not know x
\* before the call and no earlier delivery of the call brought x to n.
C27_FreshAttemptsForward ==
    [][(last'.op = "broadcast" /\ last'.outcome # "aborted") =>
         \A k \in DOMAIN global_pending' :
           \A i \in DOMAIN global_pending'[k].attempts :
             LET x == global_pending'[k].tx.id
                 b == global_pending'[k].attempts[i]
                 log == last'.log
             IN  b.timer = 0 =>
                   \E n \in DOMAIN log :
                     /\ log[n].id = x
                     /\ log[n].receiver = b.sender
                     /\ log[n].sender # b.receiver
                     /\ b.receiver \in Neighbors(b.sender)
                     /\ get_known_position(x) \notin known[b.receiver]
                     /\ \A m \in 1..(n - 1) :
                           ~(log[m].id = x /\ log[m].receiver = b.receiver)]_vars

\* a broadcast made a delivery that created an attempt, and a delivery whose
\* receiver has a neighbor other than the sender that got no attempt
C27_Witness ==
    /\ last.op = "broadcast"
    /\ \E k \in DOMAIN global_pending :
         \E i \in DOMAIN global_pending[k].attempts :
           global_pending[k].attempts[i].timer = 0
    /\ \E n \in DOMAIN last.log :
         \E q \in Neighbors(last.log[n].receiver) \ {last.log[n].sender} :
           <<last.log[n].id, last.log[n].receiver, q>>
               \notin AttemptKeys(global_pending)

\* the sum of tx_lookup[id].size_kb over a set of ids
RECURSIVE C28_SizeOf(_)
C28_SizeOf(ids) ==
    IF ids = {} THEN 0
    ELSE LET id == CHOOSE id \in ids : TRUE
         IN  tx_lookup[id].size_kb + C28_SizeOf(ids \ {id})

\* C28: a publish of block B, normal or forced, sets publish_attempt_counter
\* to 0, clears the block and current_proposed_block_size_kb, adds |B| to
\* total_published_global and the sum of the sizes of B to
\* total_published_size_kb, and returns |B|. Every step other than the reset
\* adds to total_published_size_kb exactly the sizes, as recorded at
\* injection, of the transactions it publishes, so the total is the sum of
\* the sizes of all published transactions.
C28_PublishAccounting ==
    [][/\ (last'.op = "publish" /\ last'.outcome \in {"normal", "forced"}) =>
           /\ publish_attempt_counter' = 0
           /\ proposed_transactions' = <<>>
           /\ current_proposed_block_size_kb' = 0
           /\ total_published_global' =
                  total_published_global + Len(proposed_transactions)
           /\ total_published_size_kb' =
                  total_published_size_kb + BlockKb(proposed_transactions, 1)
           /\ last'.ret = Len(proposed_transactions)
       /\ last'.op # "clean" =>
              total_published_size_kb' =
                  total_published_size_kb
                      + C28_SizeOf(published_ids' \ published_ids)]_vars

\* a forced publish of a block with kilobytes in it, after an earlier publish
C28_Witness ==
    /\ last.op = "publish" /\ last.outcome = "forced"
    /\ last.ret > 0
    /\ total_published_global > last.ret
    /\ total_published_size_kb > total_published_global

\* C29: inject_transactions(n) creates the ids next_tx_id .. next_tx_id+n-1,
\* or none when every peer is a validator.
\* Each of them has a non-validator origin, which is the only peer that knows
\* it; it is in pending_tx_ids and tx_lookup and has exactly one entry in
\* global_pending, whose attempts all have timer 0 and the origin as sender
\* and go to each neighbor of the origin exactly once. No validator is the
\* origin of any transaction.
C29_InjectAtSeed ==
    [][(last'.op = "inject" /\ ~aborted') =>
         /\ next_tx_id' = IF \E p \in Peers : ~isValidator[p]
                          THEN next_tx_id + last'.ret ELSE next_tx_id
         /\ \A x \in DOMAIN origin' : ~isValidator[origin'[x]]
         /\ \A x \in next_tx_id..(next_tx_id' - 1) :
               /\ x \in DOMAIN origin'
               /\ {p \in Peers : get_known_position(x) \in known'[p]}
                      = {origin'[x]}
               /\ x \in pending_tx_ids'
               /\ x \in DOMAIN tx_lookup'
               /\ tx_lookup'[x].id = x
               /\ \E k \in DOMAIN global_pending' :
                     LET gpt == global_pending'[k]
                     IN  /\ gpt.tx = tx_lookup'[x]
                         /\ \A k2 \in DOMAIN global_pending' :
                               global_pending'[k2].tx.id = x => k2 = k
                         /\ \A i \in DOMAIN gpt.attempts :
                               /\ gpt.attempts[i].sender = origin'[x]
                               /\ gpt.attempts[i].timer = 0
                               /\ gpt.attempts[i].receiver
                                      \in Neighbors(origin'[x])
                         /\ \A n \in Neighbors(origin'[x]) :
                               Cardinality({i \in DOMAIN gpt.attempts :
                                   gpt.attempts[i].receiver = n}) = 1]_vars

\* an injection into a network with validators created a transaction whose
\* origin has two neighbors
C29_Witness ==
    /\ last.op = "inject" /\ last.ret >= 1
    /\ validator_ids # {}
    /\ \E k \in DOMAIN global_pending :
         LET gpt == global_pending[k]
         IN  /\ gpt.tx.id = next_tx_id - 1
             /\ Len(gpt.attempts) = 2
             /\ Cardinality(Neighbors(origin[gpt.tx.id])) = 2
             /\ \A i \in DOMAIN gpt.attempts : gpt.attempts[i].timer = 0

\* the first half of C30: after a normal publish the driver has
\* block_cycle_time = 0
C30_NormalResets ==
    [][(pc = "publish" /\ last'.outcome = "normal") =>
           block_cycle_time' = 0]_vars

\* C30: the driver resets block_cycle_time to 0 after a normal publish and
\* leaves block_cycle_time as it is after a forced publish.
C30_ForcedKeepsCycleTime ==
    [][/\ (pc = "publish" /\ last'.outcome = "normal") =>
           block_cycle_time' = 0
       /\ (pc = "publish" /\ last'.outcome = "forced") =>
           block_cycle_time' = block_cycle_time]_vars

\* C31: a publish attempt on a non-empty block that misses the quorum and
\* leaves publish_attempt_counter below blocktime returns 0, adds
\* simulation_step_ms to publish_attempt_counter and changes nothing else:
\* the block, pending_tx_ids, tx_lookup, global_pending, both bitmaps, the
\* published totals, simulated_time and forced_publish_count stay.
C31_FailedAttemptFrame ==
    [][(pc = "publish" /\ last'.outcome = "retry") =>
         /\ proposed_transactions # <<>>
         /\ last'.ret = 0
         /\ publish_attempt_counter' =
                publish_attempt_counter + params.simulation_step_ms
         /\ publish_attempt_counter' < params.blocktime
         /\ UNCHANGED <<proposed_transactions, current_proposed_block_size_kb,
                        pending_tx_ids, tx_lookup, global_pending, known,
                        global_published_transactions, total_published_global,
                        total_published_size_kb, total_injected, next_tx_id,
                        simulated_time, official_sim_time, block_cycle_time,
                        forced_publish_count>>]_vars

\* a failed attempt has just left a block with transactions in flight
C31_Witness ==
    /\ last.op = "publish" /\ last.outcome = "retry"
    /\ pc = "outer"
    /\ publish_attempt_counter > 0
    /\ proposed_transactions # <<>>
    /\ global_pending # <<>>

\* C32: the topology is a simple undirected graph: no peer is adjacent to
\* itself, a pair has at most one edge, adjacency is symmetric with the same
\* delay, and connection_count is the number of neighbors and at most
\* max_connections. add_connection returns true only for a pair that was not
\* adjacent with both peers below the cap, and then adds that one edge; when
\* it returns false nothing changes.
C32_SimpleGraph ==
    \A p \in Peers :
      /\ ~HasEdge(connections, p, p)
      /\ \A k, l \in DOMAIN connections[p] :
            connections[p][k].peer = connections[p][l].peer => k = l
      /\ \A k \in DOMAIN connections[p] :
            LET q == connections[p][k].peer
            IN  /\ q \in Peers
                /\ \E l \in DOMAIN connections[q] :
                      /\ connections[q][l].peer = p
                      /\ connections[q][l].delay_ms = connections[p][k].delay_ms
      /\ connection_count[p] = Cardinality(Neighbors(p))
      /\ connection_count[p] = Len(connections[p])
      /\ connection_count[p] <= gen.max_connections

C32_Topology ==
    /\ []C32_SimpleGraph
    /\ [][last'.op = "add_connection" =>
             IF last'.ret = 0
             THEN UNCHANGED <<connections, connection_count>>
             ELSE \E p, q \in Peers :
                    /\ p # q
                    /\ ~HasEdge(connections, p, q)
                    /\ connection_count[p] < gen.max_connections
                    /\ connection_count[q] < gen.max_connections
                    /\ Neighbors(p)' = Neighbors(p) \cup {q}
                    /\ Neighbors(q)' = Neighbors(q) \cup {p}
                    /\ \A r \in Peers \ {p, q} :
                          connections'[r] = connections[r]]_vars

\* add_connection has just refused an edge that exists, in a network where a
\* peer is at the cap and a call was refused for the cap earlier or could be
C32_Witness ==
    /\ last.op = "add_connection" /\ last.outcome = "exists"
    /\ \E p \in Peers : connection_count[p] = gen.max_connections
    /\ \E p \in Peers : connection_count[p] < gen.max_connections

\* the peers that know transaction x, given the bitmaps kn
C33_Knowers(kn, x) == {p \in Peers : get_known_position(x) \in kn[p]}

\* C33: a transaction advances at most one hop per broadcast call. Every
\* delivery of a call is of an attempt that was outstanding before the call,
\* from a sender that knew the transaction before the call; the attempts the
\* call creates keep timer 0; so every peer that knows x after the call knew
\* it before or is a neighbor of a peer that did. By induction a peer at
\* distance d from the origin does not know x before the d-th call.
C33_OneHopPerCall ==
    [][last'.op = "broadcast" =>
         /\ \A n \in DOMAIN last'.log :
               LET e == last'.log[n]
               IN  /\ <<e.id, e.sender, e.receiver>>
                          \in AttemptKeys(global_pending)
                   /\ e.sender \in C33_Knowers(known, e.id)
         /\ \A k \in DOMAIN global_pending' :
               \A i \in DOMAIN global_pending'[k].attempts :
                 LET b == global_pending'[k].attempts[i]
                 IN  <<global_pending'[k].tx.id, b.sender, b.receiver>>
                         \notin AttemptKeys(global_pending) => b.timer = 0
         /\ \A x \in pending_tx_ids :
               \A p \in C33_Knowers(known', x) :
                 \/ p \in C33_Knowers(known, x)
                 \/ \E q \in Neighbors(p) : q \in C33_Knowers(known, x)]_vars

\* a broadcast delivered a transaction and created an attempt over an edge
\* whose delay the step covers; the attempt waits with timer 0 and its
\* receiver does not know the transaction
C33_Witness ==
    /\ last.op = "broadcast"
    /\ \E k \in DOMAIN global_pending :
         \E i \in DOMAIN global_pending[k].attempts :
           LET b == global_pending[k].attempts[i]
               x == global_pending[k].tx.id
           IN  /\ b.timer = 0
               /\ last.ms >= delay_ms(b.sender, b.receiver)
               /\ ~knows(b.receiver, x)
               /\ \E n \in DOMAIN last.log :
                     last.log[n].id = x /\ last.log[n].receiver = b.sender

\* C34: in run_experiment block_cycle_time never passes
\* blocktime + publish_attempt_counter, and a publish attempt made while
\* simulated_time < total_simulation_ms is made with block_cycle_time equal
\* to blocktime + publish_attempt_counter.
C34_CycleNeverOvershoots ==
    /\ block_cycle_time <= params.blocktime + publish_attempt_counter
    /\ (pc = "publish" /\ simulated_time < params.total_simulation_ms) =>
           block_cycle_time = params.blocktime + publish_attempt_counter

\* a publish attempt is about to be made before the end of the run, after a
\* cycle whose last step was clamped
C34_Witness ==
    /\ pc = "publish"
    /\ simulated_time < params.total_simulation_ms
    /\ block_cycle_time > 0
    /\ block_cycle_time % params.simulation_step_ms # 0

\* C35: in run_experiment, where blocktime and simulation_step_ms are
\* positive, after every return of publish_proposed_transactions
\* publish_attempt_counter is at least 0, below blocktime and a multiple of
\* simulation_step_ms, and it is 0 after a normal or a forced publish.
C35_CounterRange ==
    last.op = "publish" =>
        /\ params.blocktime > 0 /\ params.simulation_step_ms > 0
        /\ publish_attempt_counter >= 0
        /\ publish_attempt_counter < params.blocktime
        /\ publish_attempt_counter % params.simulation_step_ms = 0
        /\ last.outcome \in {"normal", "forced"} => publish_attempt_counter = 0

\* publish_proposed_transactions has returned from a failed attempt with a
\* counter that is not 0
C35_Witness ==
    /\ last.op = "publish" /\ last.outcome = "retry"
    /\ publish_attempt_counter = params.simulation_step_ms
    /\ publish_attempt_counter + params.simulation_step_ms >= params.blocktime

\* the peers linked to the peers of set by a path of edges that stays in within
RECURSIVE C36_Reach(_, _)
C36_Reach(set, within) ==
    LET more == {q \in within : \E p \in set : q \in Neighbors(p)} \ set
    IN  IF more = {} THEN set ELSE C36_Reach(set \cup more, within)

\* C36: the sender of every outstanding attempt of a transaction x knows x;
\* every peer that knows x is linked to the origin of x by a path of edges
\* whose peers all know x; and no peer outside the connected component of
\* the origin knows x.
C36_KnowledgeConnected ==
    /\ \A k \in DOMAIN global_pending :
          \A i \in DOMAIN global_pending[k].attempts :
            knows(global_pending[k].attempts[i].sender, global_pending[k].tx.id)
    /\ \A x \in DOMAIN origin :
          LET knowers == {p \in Peers : knows(p, x)}
          IN  /\ origin[x] \in knowers
              /\ knowers = C36_Reach({origin[x]}, knowers)
              /\ knowers \subseteq C36_Reach({origin[x]}, Peers)

\* a transaction has reached a peer that is not a neighbor of its origin
\* while attempts are outstanding
C36_Witness ==
    /\ global_pending # <<>>
    /\ \E x \in DOMAIN origin :
         \E p \in Peers :
           /\ knows(p, x)
           /\ p # origin[x]
           /\ p \notin Neighbors(origin[x])

\* the place <<k, i>> of an attempt in the iteration of broadcast over gp
C37_PosOf(gp, id, sender, receiver) ==
    CHOOSE pos \in UNION {{<<k, i>> : i \in DOMAIN gp[k].attempts} :
                           k \in DOMAIN gp} :
        /\ gp[pos[1]].tx.id = id
        /\ gp[pos[1]].attempts[pos[2]].sender = sender
        /\ gp[pos[1]].attempts[pos[2]].receiver = receiver

C37_Before(p, q) == p[1] < q[1] \/ (p[1] = q[1] /\ p[2] < q[2])

\* the kilobytes of the first n deliveries of log that sender made from
\* places before pos
RECURSIVE C37_SentBefore(_, _, _, _, _)
C37_SentBefore(gp, log, n, sender, pos) ==
    IF n = 0 THEN 0
    ELSE C37_SentBefore(gp, log, n - 1, sender, pos) +
         (IF /\ log[n].sender = sender
             /\ C37_Before(C37_PosOf(gp, log[n].id, log[n].sender,
                                      log[n].receiver), pos)
          THEN log[n].size_kb ELSE 0)

\* C37: deferral is per attempt. In a broadcast call that returns an attempt that is due,
\* whose receiver does not know the transaction when the attempt is looked
\* at, is delivered exactly when its size fits what its sender has left at
\* that moment, the deliveries the sender made earlier in the call counted
\* and the attempts of the sender deferred earlier in the call not counted;
\* otherwise it is retained.
C37_DeferralPerAttempt ==
    [][(last'.op = "broadcast" /\ last'.outcome # "aborted") =>
         \A k \in DOMAIN global_pending :
           \A i \in DOMAIN global_pending[k].attempts :
             LET a == global_pending[k].attempts[i]
                 tx == global_pending[k].tx
                 log == last'.log
                 due == a.timer + last'.ms >= delay_ms(a.sender, a.receiver)
                 knew == \/ get_known_position(tx.id) \in known[a.receiver]
                         \/ \E n \in DOMAIN log :
                              /\ log[n].id = tx.id
                              /\ log[n].receiver = a.receiver
                              /\ C37_Before(C37_PosOf(global_pending, log[n].id,
                                                 log[n].sender, log[n].receiver),
                                            <<k, i>>)
                 sent == C37_SentBefore(global_pending, log, Len(log),
                                        a.sender, <<k, i>>)
                 fits == (sent + tx.size_kb) * last'.bw.den
                             <= last'.bw.num * last'.ms
                 delivered_now == \E n \in DOMAIN log :
                                    /\ log[n].id = tx.id
                                    /\ log[n].sender = a.sender
                                    /\ log[n].receiver = a.receiver
             IN  (due /\ ~knew) =>
                    /\ fits <=> delivered_now
                    /\ ~fits => <<tx.id, a.sender, a.receiver>>
                                    \in AttemptKeys(global_pending')]_vars

\* in one broadcast call a sender had an attempt deferred and then delivered
\* a smaller transaction that comes later in global_pending
C37_Witness ==
    /\ last.op = "broadcast"
    /\ \E k, k2 \in DOMAIN global_pending :
         /\ k < k2
         /\ global_pending[k].tx.size_kb > global_pending[k2].tx.size_kb
         /\ \E i \in DOMAIN global_pending[k].attempts :
               LET a == global_pending[k].attempts[i]
               IN  /\ a.timer >= delay_ms(a.sender, a.receiver)
                   /\ ~knows(a.receiver, global_pending[k].tx.id)
                   /\ \E n \in DOMAIN last.log :
                         /\ last.log[n].id = global_pending[k2].tx.id
                         /\ last.log[n].sender = a.sender

\* the number of block transactions that validator v knows, given bitmaps kn
C38_KnownCount(kn, v, block) ==
    Cardinality({i \in DOMAIN block : get_known_position(block[i].id) \in kn[v]})

\* C38: in run_experiment a live block is frozen until it is published. Every
\* step taken with a non-empty block either publishes it (normal or forced)
\* or leaves the block and current_proposed_block_size_kb as they are, and no
\* validator's count of known block transactions goes down; prepare_request
\* is called only when the block is empty.
C38_LiveBlockFrozen ==
    [][proposed_transactions # <<>> =>
         \/ /\ pc = "publish"
            /\ last'.op = "publish"
            /\ last'.outcome \in {"normal", "forced"}
         \/ /\ proposed_transactions' = proposed_transactions
            /\ current_proposed_block_size_kb' = current_proposed_block_size_kb
            /\ \A v \in validator_ids :
                  C38_KnownCount(known', v, proposed_transactions)
                      >= C38_KnownCount(known, v, proposed_transactions)]_vars

\* the block has failed an attempt and is up for the next one, after a cycle
\* in which a transaction was injected and one was delivered
C38_Witness ==
    /\ pc = "publish"
    /\ proposed_transactions # <<>>
    /\ publish_attempt_counter > 0
    /\ last.op = "broadcast" /\ last.log # <<>>
    /\ \E x \in pending_tx_ids :
         \A i \in DOMAIN proposed_transactions :
           proposed_transactions[i].id < x

\* C39: when run_experiment returns, with positive step, blocktime and total,
\* total_simulation_ms <= simulated_time
\*     < total_simulation_ms + simulation_step_ms + 2 * blocktime
\* and official_sim_time < total_simulation_ms + simulation_step_ms.
C39_OvershootBounded ==
    pc = "done" =>
        /\ params.simulation_step_ms > 0
        /\ params.blocktime > 0
        /\ params.total_simulation_ms > 0
        /\ params.total_simulation_ms <= simulated_time
        /\ simulated_time < params.total_simulation_ms
                                + params.simulation_step_ms
                                + 2 * params.blocktime
        /\ official_sim_time
               < params.total_simulation_ms + params.simulation_step_ms

\* a run has returned past the configured length by more than a step, after
\* a forced publish made when the time without penalties had reached the
\* length
C39_Witness ==
    /\ pc = "done"
    /\ forced_publish_count > 0
    /\ simulated_time >= params.total_simulation_ms + params.simulation_step_ms
    /\ official_sim_time >= params.total_simulation_ms

====
